---- MODULE Spec2Model ----
(***************************************************************************)
(* NaviSound orchestration core: the context-window manager                *)
(* (backend/agents/context_manager.py) and the per-turn coordinator        *)
(* (backend/agents/orchestrator.py) with the capabilities it calls.        *)
(*                                                                         *)
(* Python dicts are functions whose DOMAIN is the set of keys present; a   *)
(* missing key is a key outside the DOMAIN.  Confidences are in            *)
(* hundredths (0.95 is 95).                                                *)
(***************************************************************************)
EXTENDS Integers, Sequences, FiniteSets, TLC

\* ------------------------------------------------------------------------
\*  Bounds of the model
\* ------------------------------------------------------------------------

\* add_observation calls over the live sessions of the context manager
MaxFrames == 3

\* the work the turns may leave behind over all sessions: a video frame
\* counted weighs two, a hazard frame stored and a journey-log line one each
MaxWork == 4

\* hazard-detection calls of one session when the hazard agent is driven
\* directly: enough to fill the rolling history and trim it
MaxHazardCalls == 32

\* landmarks in the durable store when SpatialMemory is driven directly
MaxLandmarks == 4

\* ------------------------------------------------------------------------
\*  Program constants
\* ------------------------------------------------------------------------

MAX_CONTEXT_TOKENS == 1048576

\* int(MAX_CONTEXT_TOKENS * 0.90)
PRUNE_TARGET == (MAX_CONTEXT_TOKENS * 90) \div 100

\* ctx.landmark_entries[-50:]
LANDMARK_WINDOW == 50

\* ------------------------------------------------------------------------
\*  Inputs
\* ------------------------------------------------------------------------

SessionIds == {"s1", "s2"}

\* only "landmark" is treated apart by the context manager
EntryTypes == {"observation", "landmark"}

\* "bigText" stands for a text of BigTextLen characters; "ok" is shorter
\* than the four characters the estimate takes for a token
Texts == {"fountain", "bigText", "ok"}

HalfTarget == PRUNE_TARGET \div 2

BigTextLen == 4 * HalfTarget

TextLen(text) == IF text = "bigText" THEN BigTextLen ELSE Len(text)

\* what the counting capability may answer for a text: two HalfTarget
\* entries fill the soft target exactly, one more token overflows it, and
\* one answer is by itself larger than the soft target
ApiTokenCounts(text) ==
    IF text = "bigText" THEN {HalfTarget, PRUNE_TARGET + 1} ELSE {1}

\* ------------------------------------------------------------------------
\*  State
\* ------------------------------------------------------------------------

VARIABLES
    cm_sessions,         \* ContextManager._sessions: session id -> SessionContext
    last_add,            \* the most recent direct add_observation call and what it did
    active_sessions,     \* orchestrator.active_sessions: session id -> dict
    client_sessions,     \* GeminiLiveClient.sessions of each client (the keys)
    pending_tool_calls,  \* GeminiLiveClient.pending_tool_calls of each client
    scene_frame_index,   \* SceneAgent.frame_index
    scene_context_buffer,\* SceneAgent.context_buffer (the _frame_index tags)
    hz_history,          \* HazardAgent._history
    hz_frame_counter,    \* HazardAgent._frame_counter
    journey_log,         \* NavigationAgent.journey_log
    db_landmarks,        \* durable store: the landmark rows, oldest first
    cache_landmarks,     \* fast cache: session id -> cached landmarks, oldest first
    pc,                  \* where the task driving the connection stands
    msg,                 \* the inbound turn being processed
    branch,              \* the three fanned-out calls of a video_frame turn
    cleaned,             \* scene_result, hazard_result, audio_result
    raised,              \* the exception that left orchestrate, if any
    response             \* what orchestrate_with_fallback returned

ctx_vars == <<cm_sessions, last_add>>

agent_vars == <<client_sessions, pending_tool_calls, scene_frame_index,
                scene_context_buffer, hz_history, hz_frame_counter, journey_log>>

store_vars == <<db_landmarks, cache_landmarks>>

turn_vars == <<pc, msg, branch, cleaned, raised, response>>

vars == <<ctx_vars, active_sessions, agent_vars, store_vars, turn_vars>>

\* ------------------------------------------------------------------------
\*  Helpers
\* ------------------------------------------------------------------------

Max(a, b) == IF a >= b THEN a ELSE b

Min(a, b) == IF a <= b THEN a ELSE b

\* d.get(k, default)
Get(d, k, default) == IF k \in DOMAIN d THEN d[k] ELSE default

\* seq[-n:] for n >= 1
LastN(seq, n) == IF Len(seq) <= n THEN seq ELSE SubSeq(seq, Len(seq) - n + 1, Len(seq))

\* seq[:n]
FirstN(seq, n) == SubSeq(seq, 1, Min(n, Len(seq)))

\* reversed(seq)
Reverse(seq) == [i \in 1..Len(seq) |-> seq[Len(seq) + 1 - i]]

RECURSIVE SumTokens(_)
SumTokens(entries) ==
    IF entries = <<>> THEN 0
    ELSE Head(entries).token_count + SumTokens(Tail(entries))

RECURSIVE SelectKind(_, _)
\* the landmark-kind entries (landmark = TRUE) or the others (FALSE), in order
SelectKind(entries, landmark) ==
    IF entries = <<>> THEN <<>>
    ELSE IF (Head(entries).entry_type = "landmark") = landmark
         THEN <<Head(entries)>> \o SelectKind(Tail(entries), landmark)
         ELSE SelectKind(Tail(entries), landmark)

\* ------------------------------------------------------------------------
\*  ContextManager
\* ------------------------------------------------------------------------

ContextEntry(text, tokens, frame, entry_type) ==
    [role |-> "model", text |-> text, token_count |-> tokens,
     frame_index |-> frame, entry_type |-> entry_type]

SessionContext(sid) ==
    [session_id |-> sid, entries |-> <<>>, total_tokens |-> 0,
     frame_counter |-> 0, landmark_entries |-> <<>>]

\* an estimate without its floor of one token
count_tokens_estimate_unfloored(text) == TextLen(text) \div 4

\* the except branch of count_tokens
count_tokens_estimate(text) == Max(1, TextLen(text) \div 4)

\* count_tokens: the capability's answer, or the estimate when it raises
count_tokens(text, api_ok, api_tokens) ==
    IF api_ok THEN api_tokens ELSE count_tokens_estimate(text)

get_or_create(S, sid) ==
    IF sid \in DOMAIN S THEN S ELSE S @@ (sid :> SessionContext(sid))

\* a removal that discards every session's context
remove_session_all(S, sid) == [k \in {} |-> S[k]]

remove_session(S, sid) == [k \in DOMAIN S \ {sid} |-> S[k]]

RECURSIVE prune_subtracting_twice(_, _, _, _)
\* an eviction loop that takes the popped entry's tokens off the total twice
prune_subtracting_twice(entries, total, tokens, evicted) ==
    IF total + tokens > PRUNE_TARGET /\ entries # <<>>
    THEN prune_subtracting_twice(Tail(entries), total - 2 * Head(entries).token_count,
                                 tokens, evicted \o <<Head(entries)>>)
    ELSE [entries |-> entries, total_tokens |-> total, evicted |-> evicted]

\* an eviction that empties the buffer as soon as the entry does not fit
prune_whole_buffer(entries, total, tokens, evicted) ==
    IF total + tokens > PRUNE_TARGET /\ entries # <<>>
    THEN [entries |-> <<>>, total_tokens |-> total - SumTokens(entries),
          evicted |-> evicted \o entries]
    ELSE [entries |-> entries, total_tokens |-> total, evicted |-> evicted]

RECURSIVE prune(_, _, _, _)
\* while ctx.total_tokens + tokens > PRUNE_TARGET and ctx.entries: popleft
prune(entries, total, tokens, evicted) ==
    IF total + tokens > PRUNE_TARGET /\ entries # <<>>
    THEN prune(Tail(entries), total - Head(entries).token_count, tokens,
               evicted \o <<Head(entries)>>)
    ELSE [entries |-> entries, total_tokens |-> total, evicted |-> evicted]

\* a landmark list that eviction prunes together with the deque
landmark_entries_pruned(ctx, pruned, entry) ==
    LET evicted == {pruned.evicted[i] : i \in 1..Len(pruned.evicted)}
        kept == SelectSeq(ctx.landmark_entries, LAMBDA e : e \notin evicted)
    IN IF entry.entry_type = "landmark" THEN Append(kept, entry) ELSE kept

\* the landmark list after an insertion
landmark_entries_after(ctx, pruned, entry) ==
    IF entry.entry_type = "landmark"
    THEN Append(ctx.landmark_entries, entry)
    ELSE ctx.landmark_entries

\* an insertion at the head of the buffer, where the eviction pops
add_to_context_at_head(ctx, text, entry_type, tokens) ==
    LET entry == ContextEntry(text, tokens, ctx.frame_counter, entry_type)
        pruned == prune(ctx.entries, ctx.total_tokens, tokens, <<>>)
    IN [session_id |-> ctx.session_id,
        entries |-> <<entry>> \o pruned.entries,
        total_tokens |-> pruned.total_tokens + tokens,
        frame_counter |-> ctx.frame_counter + 1,
        landmark_entries |-> landmark_entries_after(ctx, pruned, entry)]

\* the session context after add_observation's synchronous part
add_to_context(ctx, text, entry_type, tokens) ==
    LET entry == ContextEntry(text, tokens, ctx.frame_counter, entry_type)
        pruned == prune(ctx.entries, ctx.total_tokens, tokens, <<>>)
    IN [session_id |-> ctx.session_id,
        entries |-> Append(pruned.entries, entry),
        total_tokens |-> pruned.total_tokens + tokens,
        frame_counter |-> ctx.frame_counter + 1,
        landmark_entries |-> landmark_entries_after(ctx, pruned, entry)]

add_observation(S, sid, text, entry_type, tokens) ==
    LET S1 == get_or_create(S, sid)
    IN [S1 EXCEPT ![sid] = add_to_context(S1[sid], text, entry_type, tokens)]

\* what the call returned and popped
add_observation_record(S, sid, text, entry_type, tokens, api_ok) ==
    LET ctx == get_or_create(S, sid)[sid]
    IN [session_id |-> sid,
        entry |-> ContextEntry(text, tokens, ctx.frame_counter, entry_type),
        evicted |-> prune(ctx.entries, ctx.total_tokens, tokens, <<>>).evicted,
        counted |-> api_ok]

Header(title) == [frame |-> -1, text |-> title]

FrameLine(e) == [frame |-> e.frame_index, text |-> e.text]

\* a rendering that looks for the landmarks in the entry buffer
build_context_string_from_buffer(S, sid, max_entries, include_landmarks) ==
    LET ctx == get_or_create(S, sid)[sid]
        lms == LastN(SelectKind(ctx.entries, TRUE), LANDMARK_WINDOW)
        landmark_part ==
            IF include_landmarks /\ lms # <<>>
            THEN <<Header("=== KNOWN LANDMARKS ===")>>
                 \o [i \in 1..Len(lms) |-> FrameLine(lms[i])]
                 \o <<Header("")>>
            ELSE <<>>
        entries == SelectKind(IF max_entries # 0 THEN LastN(ctx.entries, max_entries)
                              ELSE ctx.entries, FALSE)
        recent_part ==
            IF entries # <<>>
            THEN <<Header("=== RECENT OBSERVATIONS ===")>>
                 \o [i \in 1..Len(entries) |-> FrameLine(entries[i])]
            ELSE <<>>
    IN landmark_part \o recent_part

\* the lines joined by "\n"; max_entries = 0 stands for None (both falsy)
build_context_string(S, sid, max_entries, include_landmarks) ==
    LET ctx == get_or_create(S, sid)[sid]
        lms == LastN(ctx.landmark_entries, LANDMARK_WINDOW)
        landmark_part ==
            IF include_landmarks /\ ctx.landmark_entries # <<>>
            THEN <<Header("=== KNOWN LANDMARKS ===")>>
                 \o [i \in 1..Len(lms) |-> FrameLine(lms[i])]
                 \o <<Header("")>>
            ELSE <<>>
        entries == IF max_entries # 0 THEN LastN(ctx.entries, max_entries)
                   ELSE ctx.entries
        recent_part ==
            IF entries # <<>>
            THEN <<Header("=== RECENT OBSERVATIONS ===")>>
                 \o [i \in 1..Len(entries) |-> FrameLine(entries[i])]
            ELSE <<>>
    IN landmark_part \o recent_part

\* statistics that leave the landmark-kind entries of the buffer out
get_stats_without_landmarks(S, sid) ==
    LET ctx == get_or_create(S, sid)[sid]
        others == SelectKind(ctx.entries, FALSE)
    IN [total_tokens |-> SumTokens(others),
        max_tokens |-> MAX_CONTEXT_TOKENS,
        entry_count |-> Len(others),
        landmark_count |-> Len(ctx.landmark_entries),
        frame_counter |-> ctx.frame_counter]

get_stats(S, sid) ==
    LET ctx == get_or_create(S, sid)[sid]
    IN [total_tokens |-> ctx.total_tokens,
        max_tokens |-> MAX_CONTEXT_TOKENS,
        entry_count |-> Len(ctx.entries),
        landmark_count |-> Len(ctx.landmark_entries),
        frame_counter |-> ctx.frame_counter]

\* ------------------------------------------------------------------------
\*  Values crossing the capability boundary
\* ------------------------------------------------------------------------

\* {}
EmptyDict == [k \in {} |-> 0]

\* Python None where a number is expected, and where a string is expected
NoneNum == -1000000

NoneStr == "None"

\* a list entry that is not a dict is wrapped under this key
IsDict(x) == "__nondict__" \notin DOMAIN x

\* errors.APIError, and any other Exception
ExcKinds == {"APIError", "Exception"}

Started == [status |-> "started"]

Returned(value) == [status |-> "returned", value |-> value]

Raised(exc) == [status |-> "raised", exc |-> exc]

NotStarted == [status |-> "none"]

\* the scene capability's answers: the parsed JSON and the function calls
SceneResponses ==
    { [result |-> [clear_path |-> [direction |-> "", distance_feet |-> 0],
                   direction |-> "right", distance_feet |-> 7, confidence |-> -50],
       tool_calls |-> <<>>],
      [result |-> [confidence |-> 0, confidence_0to1 |-> 50],
       tool_calls |-> <<>>],
      [result |-> [clear_path |-> [direction |-> "forward", distance_feet |-> 10],
                   direction |-> "right", distance_feet |-> 7,
                   confidence_0to1 |-> 120, summary |-> "Safe path",
                   obstacles |-> <<[name |-> "person", location |-> "left",
                                    distance_feet |-> 3]>>,
                   floor_hazards |-> <<[type |-> "cable", location |-> "center"]>>,
                   spatial_features |-> <<[label |-> "fountain",
                                           direction |-> "forward",
                                           distance_feet |-> 8]>>],
       tool_calls |-> <<[name |-> "update_route",
                         args |-> [instruction |-> "turn left",
                                   next_direction |-> "left"]]>>],
      [result |-> [confidence |-> NoneNum, long_description |-> "hall"],
       tool_calls |-> <<>>] }

\* the hazard capability's answers
HazardResponses ==
    { [result |-> [imminent_hazards |-> <<[type |-> "person", urgency |-> "CRITICAL",
                                           direction |-> "left"]>>,
                   recommended_action |-> "stop"],
       tool_calls |-> <<[name |-> "report_hazard",
                         args |-> [hazard_type |-> "person",
                                   urgency |-> "CRITICAL"]]>>],
      [result |-> [hazards |-> <<[name |-> "stairs", location |-> "ahead",
                                  distance_feet |-> 8],
                                 [__nondict__ |-> "debris"]>>],
       tool_calls |-> <<>>],
      [result |-> [imminent_hazards |-> <<[type |-> "person", urgency |-> "CRITICAL",
                                           direction |-> "left"]>>,
                   hazards |-> <<[name |-> "stairs", location |-> "ahead",
                                  distance_feet |-> 8]>>],
       tool_calls |-> <<>>] }

\* the audio capability's answers to the fanned-out call and to the second call
AudioResponses == { [result |-> [pan |-> 0], tool_calls |-> <<>>] }

ReAudioResponses ==
    { [result |-> [pan |-> 30, voice_instruction |-> "Clear path ahead"],
       tool_calls |-> <<>>],
      [result |-> [pan |-> 30, _native_audio_b64 |-> "pcm",
                   _native_audio_mime |-> "audio/pcm"],
       tool_calls |-> <<>>] }

\* the navigation and the synthesis capability's answers
NavResponses ==
    { [result |-> [next_direction |-> "left", distance_feet |-> 5],
       tool_calls |-> <<>>] }

MemoryResponses ==
    { [result |-> [found |-> TRUE, voice_response |-> "on your left"],
       tool_calls |-> <<>>],
      [result |-> EmptyDict, tool_calls |-> <<>>] }

\* the inbound turns
Messages ==
    { [type |-> "video_frame", data |-> "AAAA", timestamp |-> 1,
       sensor_data |-> [lat |-> 40, lon |-> 74]],
      [type |-> "video_frame"],
      [type |-> "text_query", destination |-> "exit"],
      [type |-> "voice_command", text |-> "Where was the fountain?"],
      [type |-> "voice_command", text |-> "exit"],
      [type |-> "audio_chunk", data |-> "BBBB"],
      [type |-> "memory_query", query |-> "fountain",
       sensor_data |-> [lat |-> 40, lon |-> 74]],
      [type |-> "ping"] }

Clients == {"scene", "hazard", "audio", "nav", "memory"}

\* ------------------------------------------------------------------------
\*  GeminiLiveClient
\* ------------------------------------------------------------------------

\* what a send_multimodal on a client can end in: "Session not found", a
\* transport error or another error, or an answer
send_multimodal(CS, client, sid, answers) ==
    IF sid \notin CS[client] THEN {Raised("Exception")}
    ELSE {Raised(exc) : exc \in ExcKinds} \cup {Returned(a) : a \in answers}

\* result["_function_calls"] = tool_calls, when there are any
with_function_calls(answer) ==
    IF answer.tool_calls # <<>>
    THEN answer.result @@ [k \in {"_function_calls"} |-> answer.tool_calls]
    ELSE answer.result

\* self.pending_tool_calls[session_id] = tool_calls, when there are any
store_tool_calls(P, client, sid, answer) ==
    IF answer.tool_calls # <<>>
    THEN [P EXCEPT ![client] =
            [k \in (DOMAIN P[client]) \cup {sid} |->
                IF k = sid THEN answer.tool_calls ELSE P[client][k]]]
    ELSE P

\* pop_tool_calls: the calls returned, and the map without them
popped_tool_calls(P, client, sid) == Get(P[client], sid, <<>>)

pop_tool_calls(P, client, sid) ==
    [P EXCEPT ![client] = [k \in (DOMAIN P[client]) \ {sid} |-> P[client][k]]]

\* ------------------------------------------------------------------------
\*  Strings
\* ------------------------------------------------------------------------

\* q in s
Substring(q, s) ==
    \E i \in 0..(Len(s) - Len(q)) : SubSeq(s, i + 1, i + Len(q)) = q

LowerChar(c) ==
    CASE c = "W" -> "w" [] c = "G" -> "g" [] c = "F" -> "f" [] OTHER -> c

RECURSIVE Lower(_)
\* str.lower() over the letters of the modelled texts
Lower(str) ==
    IF Len(str) = 0 THEN ""
    ELSE LowerChar(SubSeq(str, 1, 1)) \o Lower(SubSeq(str, 2, Len(str)))

RECURSIVE Remove(_, _)
\* str.replace(old, "")
Remove(str, old) ==
    IF Len(str) < Len(old) THEN str
    ELSE IF SubSeq(str, 1, Len(old)) = old
         THEN Remove(SubSeq(str, Len(old) + 1, Len(str)), old)
         ELSE SubSeq(str, 1, 1) \o Remove(SubSeq(str, 2, Len(str)), old)

RECURSIVE LStrip(_)
LStrip(str) ==
    IF Len(str) > 0 /\ SubSeq(str, 1, 1) = " "
    THEN LStrip(SubSeq(str, 2, Len(str))) ELSE str

RECURSIVE RStrip(_, _)
\* str.rstrip(ch)
RStrip(str, ch) ==
    IF Len(str) > 0 /\ SubSeq(str, Len(str), Len(str)) = ch
    THEN RStrip(SubSeq(str, 1, Len(str) - 1), ch) ELSE str

\* text.lower().replace("where was the", "").replace("where is the", "")
\*     .strip().rstrip("?")
recall_query(text) ==
    RStrip(RStrip(LStrip(Remove(Remove(Lower(text), "where was the"),
                                "where is the")), " "), "?")

\* ------------------------------------------------------------------------
\*  SceneAgent, HazardAgent, NavigationAgent
\* ------------------------------------------------------------------------

\* the rolling buffers keep their last 30 and 100 entries
SCENE_BUFFER_MAX == 30

HAZARD_HISTORY_MAX == 30

JOURNEY_LOG_MAX == 100

\* analyze_frame after the capability answered: response["_frame_index"]
scene_response(answer, frame_index) ==
    [k \in {"_frame_index"} |-> frame_index] @@ with_function_calls(answer)

scene_buffer_after(buffer, frame_index) ==
    LastN(Append(buffer, frame_index), SCENE_BUFFER_MAX)

\* _get_temporal_context(session_id, last_n=5): the default window
TEMPORAL_CONTEXT_FRAMES == 5

\* the frames _get_temporal_context puts into the prompt, one line each
\* (frame index and hazards; the elapsed time is left out); no frame stands
\* for "No previous hazard history."
temporal_context(H, sid) == LastN(Get(H, sid, <<>>), TEMPORAL_CONTEXT_FRAMES)

\* detect_hazards after the capability answered: the history frame
\* (the wall-clock timestamp is left out)
hazard_frame(result, frame_idx) ==
    [frame_index |-> frame_idx, hazards |-> Get(result, "imminent_hazards", <<>>)]

\* a history that drops the new frame once it is full
hazard_history_after_newest_dropped(H, sid, result, frame_idx) ==
    LET old == Get(H, sid, <<>>)
        new == FirstN(Append(old, hazard_frame(result, frame_idx)), HAZARD_HISTORY_MAX)
    IN [k \in (DOMAIN H) \cup {sid} |-> IF k = sid THEN new ELSE H[k]]

hazard_history_after(H, sid, result, frame_idx) ==
    LET old == Get(H, sid, <<>>)
        new == LastN(Append(old, hazard_frame(result, frame_idx)), HAZARD_HISTORY_MAX)
    IN [k \in (DOMAIN H) \cup {sid} |-> IF k = sid THEN new ELSE H[k]]

\* a call that stores its frame and leaves the frame counter where it was
hazard_counter_after_unchanged(C, sid) ==
    [k \in (DOMAIN C) \cup {sid} |-> IF k = sid THEN Get(C, sid, 0) ELSE C[k]]

hazard_counter_after(C, sid) ==
    [k \in (DOMAIN C) \cup {sid} |-> IF k = sid THEN Get(C, sid, 0) + 1 ELSE C[k]]

\* clear_session on one of the two dicts: pop(session_id, None)
clear_session(F, sid) == [k \in (DOMAIN F) \ {sid} |-> F[k]]

journey_log_after(log, destination, result) ==
    LastN(Append(log, [destination |-> destination, response |-> result]),
          JOURNEY_LOG_MAX)

\* handle_memory_query
handle_memory_query(query, memory_results) ==
    LET gemini_answer == Get(memory_results, "gemini_answer", EmptyDict)
    IN [type |-> "memory_recall",
        query |-> query,
        found |-> Get(gemini_answer, "found", FALSE),
        voice_instruction |->
            Get(gemini_answer, "voice_response",
                "I don't have information about '" \o query \o "' in my memory."),
        details |-> gemini_answer,
        database_matches |-> FirstN(Get(memory_results, "database_matches", <<>>), 5)]

\* ------------------------------------------------------------------------
\*  SpatialMemory over the durable store and the fast cache
\* ------------------------------------------------------------------------

Truthy(str) == str # "" /\ str # NoneStr

\* f"LANDMARK: {label}" and its optional parts
landmark_text(label, description, direction, distance_feet) ==
    "LANDMARK: " \o label
    \o (IF Truthy(description) THEN " - " \o description ELSE "")
    \o (IF Truthy(direction)
        THEN " (" \o direction
             \o (IF distance_feet # NoneNum /\ distance_feet # 0
                 THEN ", ~" \o ToString(distance_feet) \o "ft" ELSE "")
             \o ")"
        ELSE "")

\* count_tokens on a text of a turn: the capability's answer or the estimate
turn_tokens(text, count_ok) ==
    count_tokens(text, count_ok, CHOOSE t \in ApiTokenCounts(text) : TRUE)

\* the stores a landmark write goes through
Stores(cm, db, cache) == [cm |-> cm, db |-> db, cache |-> cache, ok |-> TRUE, ids |-> <<>>]

landmark_row(id, sid, lm) ==
    [id |-> id, session_id |-> sid, label |-> lm.label,
     description |-> lm.description, direction |-> lm.direction,
     distance_feet |-> lm.distance_feet, frame_index |-> lm.frame_index,
     lat |-> lm.lat, lon |-> lm.lon]

\* a cache write that is acknowledged and lost
cache_after_lost(cache, sid, row) == cache

cache_after(cache, sid, row) ==
    [k \in (DOMAIN cache) \cup {sid} |->
        IF k = sid THEN Append(Get(cache, sid, <<>>), row) ELSE cache[k]]

\* a record_landmark that writes the cache before the durable store
record_landmark_cache_first(st, sid, lm, outcome, count_ok) ==
    LET id == Len(st.db) + 1
        row == landmark_row(id, sid, lm)
        text == landmark_text(lm.label, lm.description, lm.direction, lm.distance_feet)
        tokens == turn_tokens(text, count_ok)
    IN IF outcome = "cache_fail" THEN [st EXCEPT !.ok = FALSE]
       ELSE IF outcome = "db_fail"
       THEN [st EXCEPT !.cache = cache_after(st.cache, sid, row), !.ok = FALSE]
       ELSE [st EXCEPT !.db = Append(st.db, row),
                       !.cache = cache_after(st.cache, sid, row),
                       !.cm = add_observation(st.cm, sid, text, "landmark", tokens),
                       !.ids = Append(st.ids, id)]

\* record_landmark: the durable write ("db_fail" raises before anything is
\* written), the cache write ("cache_fail" raises after the durable write),
\* then the landmark entry of the context window
record_landmark(st, sid, lm, outcome, count_ok) ==
    LET id == Len(st.db) + 1
        row == landmark_row(id, sid, lm)
        text == landmark_text(lm.label, lm.description, lm.direction, lm.distance_feet)
        tokens == turn_tokens(text, count_ok)
    IN IF outcome = "db_fail" THEN [st EXCEPT !.ok = FALSE]
       ELSE IF outcome = "cache_fail"
       THEN [st EXCEPT !.db = Append(st.db, row), !.ok = FALSE]
       ELSE [st EXCEPT !.db = Append(st.db, row),
                       !.cache = cache_after(st.cache, sid, row),
                       !.cm = add_observation(st.cm, sid, text, "landmark", tokens),
                       !.ids = Append(st.ids, id)]

\* the landmark candidates of a scene result, in the order they are recorded
feature_candidate(feat, frame_index, lat, lon) ==
    IF ~IsDict(feat)
    THEN [label |-> feat.__nondict__, description |-> "", direction |-> NoneStr,
          distance_feet |-> NoneNum, frame_index |-> frame_index,
          lat |-> lat, lon |-> lon]
    ELSE [label |-> Get(feat, "label", Get(feat, "name", "unknown")),
          description |-> Get(feat, "description", ""),
          direction |-> Get(feat, "direction", Get(feat, "location", "")),
          distance_feet |-> Get(feat, "distance_feet", NoneNum),
          frame_index |-> frame_index, lat |-> lat, lon |-> lon]

obstacle_candidate(obs, frame_index, lat, lon) ==
    [label |-> Get(obs, "name", "obstacle"),
     description |-> "obstacle at " \o Get(obs, "location", "unknown"),
     direction |-> Get(obs, "location", NoneStr),
     distance_feet |-> Get(obs, "distance_feet", NoneNum),
     frame_index |-> frame_index, lat |-> lat, lon |-> lon]

\* an extraction that takes the spatial features and leaves the obstacles
landmark_candidates_features_only(scene_result, frame_index, lat, lon) ==
    LET feats == Get(scene_result, "spatial_features", <<>>)
    IN [i \in 1..Len(feats) |-> feature_candidate(feats[i], frame_index, lat, lon)]

landmark_candidates(scene_result, frame_index, lat, lon) ==
    LET feats == Get(scene_result, "spatial_features", <<>>)
        obstacles == SelectSeq(Get(scene_result, "obstacles", <<>>), IsDict)
    IN [i \in 1..Len(feats) |-> feature_candidate(feats[i], frame_index, lat, lon)]
       \o [i \in 1..Len(obstacles) |->
              obstacle_candidate(obstacles[i], frame_index, lat, lon)]

RECURSIVE record_each_continuing(_, _, _, _, _, _)
\* a loop that goes on to the next candidate after a write that raised
record_each_continuing(st, sid, cands, outcomes, k, count_ok) ==
    IF k > Len(cands) THEN st
    ELSE record_each_continuing(
             record_landmark(st, sid, cands[k], outcomes[k], count_ok),
             sid, cands, outcomes, k + 1, count_ok)

RECURSIVE record_each(_, _, _, _, _, _)
\* the loop of extract_and_store_landmarks: the first write that raises ends it
record_each(st, sid, cands, outcomes, k, count_ok) ==
    IF k > Len(cands) \/ ~st.ok THEN st
    ELSE record_each(record_landmark(st, sid, cands[k], outcomes[k], count_ok),
                     sid, cands, outcomes, k + 1, count_ok)

extract_and_store_landmarks(st, sid, scene_result, frame_index, lat, lon, outcomes, count_ok) ==
    record_each(st, sid, landmark_candidates(scene_result, frame_index, lat, lon),
                outcomes, 1, count_ok)

\* recall_landmarks' json.dumps(entry), as far as a query can match it
cache_json(row) ==
    "{label: " \o row.label \o ", id: " \o ToString(row.id)
    \o ", description: " \o row.description \o ", direction: " \o row.direction \o "}"

\* recall_landmarks(session_id, query, limit=5): newest first
recall_landmarks(cache, sid, query) ==
    LET q == Lower(query)
        hit(row) == Substring(q, Lower(row.label)) \/ Substring(q, Lower(cache_json(row)))
    IN FirstN(SelectSeq(Reverse(Get(cache, sid, <<>>)), hit), 5)

\* crud.search_landmarks(session_id, query, limit=5): label ILIKE %query%
search_landmarks(db, sid, query) ==
    LET hit(row) == row.session_id = sid /\ Substring(Lower(query), Lower(row.label))
    IN FirstN(SelectSeq(Reverse(db), hit), 5)

\* crud.search_landmarks_near(..., radius_metres=50.0, limit=5); the modelled
\* points are either the same place or far apart
search_landmarks_near(db, sid, lat, lon) ==
    LET hit(row) == row.session_id = sid /\ row.lat # NoneNum
                    /\ row.lat = lat /\ row.lon = lon
    IN FirstN(SelectSeq(Reverse(db), hit), 5)

Tagged(rows, source) == [i \in 1..Len(rows) |-> [source |-> source, row |-> rows[i]]]

\* a recall that asks the durable store for the landmarks nearby in any case
recall_queries_always_near(lat, lon) == <<"cache", "database", "proximity">>

\* the lookups recall issues, in order: the proximity query only with a
\* whole geo point
recall_queries(lat, lon) ==
    <<"cache", "database">>
    \o (IF lat # NoneNum /\ lon # NoneNum THEN <<"proximity">> ELSE <<>>)

\* the tagged answer of one lookup
lookup_matches(source, cache, db, sid, query, lat, lon) ==
    IF source = "cache" THEN Tagged(recall_landmarks(cache, sid, query), "cache")
    ELSE IF source = "database"
    THEN Tagged(search_landmarks(db, sid, query), "database")
    ELSE Tagged(search_landmarks_near(db, sid, lat, lon), "proximity")

RECURSIVE lookups_matches(_, _, _, _, _, _, _)
lookups_matches(sources, cache, db, sid, query, lat, lon) ==
    IF sources = <<>> THEN <<>>
    ELSE lookup_matches(Head(sources), cache, db, sid, query, lat, lon)
         \o lookups_matches(Tail(sources), cache, db, sid, query, lat, lon)

\* the evidence recall collects before it asks the synthesis capability
recall_matches(cache, db, sid, query, lat, lon) ==
    lookups_matches(recall_queries(lat, lon), cache, db, sid, query, lat, lon)

\* a recall that returns all the evidence it collected
recall_result_uncapped(query, matches, gemini_answer) ==
    [query |-> query, matches_found |-> Len(matches),
     database_matches |-> matches, gemini_answer |-> gemini_answer]

recall_result(query, matches, gemini_answer) ==
    [query |-> query, matches_found |-> Len(matches),
     database_matches |-> FirstN(matches, 10), gemini_answer |-> gemini_answer]

\* ------------------------------------------------------------------------
\*  orchestrate: the merge of a video_frame turn
\* ------------------------------------------------------------------------

DEFAULT_CONFIDENCE == 85

CONFIDENCE_CAP == 95

\* clear_path.get("direction") or scene_result.get("direction", "")
merged_direction(scene_result) ==
    LET nested == Get(Get(scene_result, "clear_path", EmptyDict), "direction", NoneStr)
    IN IF Truthy(nested) THEN nested ELSE Get(scene_result, "direction", "")

\* clear_path.get("distance_feet") or scene_result.get("distance_feet", 0)
merged_distance(scene_result) ==
    LET nested == Get(Get(scene_result, "clear_path", EmptyDict), "distance_feet", NoneNum)
    IN IF nested # NoneNum /\ nested # 0 THEN nested
       ELSE Get(scene_result, "distance_feet", 0)

\* a merge that reads only the imminent_hazards key
hazard_source_imminent_only(hazard_result) ==
    Get(hazard_result, "imminent_hazards", <<>>)

\* hazard_result.get("imminent_hazards", hazard_result.get("hazards", []))
hazard_source(hazard_result) ==
    Get(hazard_result, "imminent_hazards", Get(hazard_result, "hazards", <<>>))

from_hazard(h) ==
    [type |-> Get(h, "type", Get(h, "name", "obstacle")),
     urgency |-> Get(h, "urgency", "medium"),
     direction |-> Get(h, "direction", Get(h, "location", "")),
     distance_feet |-> Get(h, "distance_feet", NoneNum),
     speed_ft_per_sec |-> Get(h, "speed_ft_per_sec", NoneNum),
     bounding_box |-> Get(h, "bounding_box", NoneStr)]

from_obstacle(obs) ==
    [type |-> Get(obs, "name", Get(obs, "type", "obstacle")),
     urgency |-> Get(obs, "urgency", "medium"),
     direction |-> Get(obs, "location", Get(obs, "direction", "")),
     distance_feet |-> Get(obs, "distance_feet", NoneNum),
     bounding_box |-> Get(obs, "bounding_box", NoneStr)]

from_floor_hazard(fh) ==
    [type |-> Get(fh, "type", "floor_hazard"),
     urgency |-> Get(fh, "urgency", "high"),
     direction |-> Get(fh, "location", ""),
     bounding_box |-> Get(fh, "bounding_box", NoneStr)]

\* [x for x in seq if isinstance(x, dict)]
Dicts(seq) == SelectSeq(seq, IsDict)

\* the three loops of the merge, each over the dict entries of its list
mapped_hazards(seq) ==
    [i \in 1..Len(Dicts(seq)) |-> from_hazard(Dicts(seq)[i])]

mapped_obstacles(seq) ==
    [i \in 1..Len(Dicts(seq)) |-> from_obstacle(Dicts(seq)[i])]

mapped_floor_hazards(seq) ==
    [i \in 1..Len(Dicts(seq)) |-> from_floor_hazard(Dicts(seq)[i])]

\* a merge that drops an obstacle the hazard capability already reported
all_hazards_deduplicated(scene_result, hazard_result) ==
    LET hz == mapped_hazards(hazard_source(hazard_result))
        Fresh(o) == \A i \in 1..Len(hz) :
                        hz[i].type # o.type \/ hz[i].direction # o.direction
    IN hz
       \o SelectSeq(mapped_obstacles(Get(scene_result, "obstacles", <<>>)), Fresh)
       \o mapped_floor_hazards(Get(scene_result, "floor_hazards", <<>>))

all_hazards(scene_result, hazard_result) ==
    mapped_hazards(hazard_source(hazard_result))
    \o mapped_obstacles(Get(scene_result, "obstacles", <<>>))
    \o mapped_floor_hazards(Get(scene_result, "floor_hazards", <<>>))

\* the first argument of min(): confidence, else confidence_0to1, else 0.85
raw_confidence(scene_result) ==
    Get(scene_result, "confidence",
        Get(scene_result, "confidence_0to1", DEFAULT_CONFIDENCE))

\* min(..., 0.95)
merged_confidence(scene_result) == Min(raw_confidence(scene_result), CONFIDENCE_CAP)

\* scene_result.get("summary", "") or scene_result.get("long_description", "")
merged_summary(scene_result) ==
    IF Truthy(Get(scene_result, "summary", ""))
    THEN scene_result.summary ELSE Get(scene_result, "long_description", "")

native_audio(audio_result) ==
    IF Truthy(Get(audio_result, "_native_audio_b64", NoneStr))
    THEN [native_audio_b64 |-> audio_result._native_audio_b64,
          native_audio_mime |-> Get(audio_result, "_native_audio_mime", "audio/pcm")]
    ELSE EmptyDict

merged_response(res, ctx_stats, frame_count) ==
    [direction |-> merged_direction(res.scene_result),
     distance_feet |-> merged_distance(res.scene_result),
     hazards |-> all_hazards(res.scene_result, res.hazard_result),
     predicted_hazards |-> Get(res.hazard_result, "predicted_hazards", <<>>),
     confidence |-> merged_confidence(res.scene_result),
     audio |-> res.audio_result,
     summary |-> merged_summary(res.scene_result),
     spatial_features |-> Get(res.scene_result, "spatial_features", <<>>),
     hazard_action |-> Get(res.hazard_result, "recommended_action", ""),
     context_stats |-> ctx_stats,
     frame_count |-> frame_count]
    @@ native_audio(res.audio_result)

\* ------------------------------------------------------------------------
\*  orchestrate_with_fallback: what an exception out of orchestrate becomes
\* ------------------------------------------------------------------------

fallback_last_known(A, sid) ==
    LET last_known == Get(A, sid, EmptyDict)
    IN [mode |-> "fallback_last_known",
        direction |-> Get(last_known, "last_clear_direction", NoneStr),
        distance_feet |-> Get(last_known, "last_clear_distance", NoneNum),
        warning |-> "Using cached scene due to connectivity issue"]

safe_fallback ==
    [mode |-> "safe_fallback", instruction |-> "Stop and wait",
     reason |-> "System error detected"]

\* a wrapper whose first handler catches everything
fallback_response_first_handler(A, sid, exc) == fallback_last_known(A, sid)

\* try: orchestrate / except errors.APIError / except Exception
fallback_response(A, sid, exc) ==
    IF exc = "APIError" THEN fallback_last_known(A, sid) ELSE safe_fallback

\* ------------------------------------------------------------------------
\*  Module state after import
\* ------------------------------------------------------------------------

NoMsg == [type |-> "none"]

NoBranches == [scene |-> NotStarted, hazard |-> NotStarted, audio |-> NotStarted]

NoResults == [scene_result |-> EmptyDict, hazard_result |-> EmptyDict,
              audio_result |-> EmptyDict]

NoResponse == [mode |-> "none"]

NoCall == [session_id |-> "", evicted |-> <<>>, counted |-> TRUE]

ModuleInit ==
    /\ active_sessions = [sid \in {} |-> EmptyDict]
    /\ client_sessions = [c \in Clients |-> {}]
    /\ pending_tool_calls = [c \in Clients |-> [sid \in {} |-> <<>>]]
    /\ scene_frame_index = 0
    /\ scene_context_buffer = <<>>
    /\ hz_history = [sid \in {} |-> <<>>]
    /\ hz_frame_counter = [sid \in {} |-> 0]
    /\ journey_log = <<>>
    /\ db_landmarks = <<>>
    /\ cache_landmarks = [sid \in {} |-> <<>>]
    /\ pc = "idle"
    /\ msg = NoMsg
    /\ branch = NoBranches
    /\ cleaned = NoResults
    /\ raised = "none"
    /\ response = NoResponse

\* ------------------------------------------------------------------------
\*  _handle_tool_call
\* ------------------------------------------------------------------------

StoreOutcomes == {"ok", "db_fail", "cache_fail"}

tool_call_landmark(args, lat, lon) ==
    [label |-> Get(args, "label", "unknown"),
     description |-> Get(args, "description", ""),
     direction |-> Get(args, "direction", NoneStr),
     distance_feet |-> Get(args, "distance_feet", NoneNum),
     frame_index |-> 0, lat |-> lat, lon |-> lon]

route_update_text(args) ==
    "ROUTE UPDATE: " \o Get(args, "instruction", "")
    \o " (" \o Get(args, "next_direction", "") \o ")"

\* one stored intent applied; a failed landmark write is caught and logged
handle_tool_call(st, sid, tc, lat, lon, outcome, count_ok) ==
    LET name == Get(tc, "name", "")
        args == Get(tc, "args", EmptyDict)
    IN IF name = "record_landmark"
       THEN [record_landmark(st, sid, tool_call_landmark(args, lat, lon),
                             outcome, count_ok) EXCEPT !.ok = TRUE]
       ELSE IF name = "update_route"
       THEN [st EXCEPT !.cm = add_observation(st.cm, sid, route_update_text(args),
                                              "route",
                                              turn_tokens(route_update_text(args),
                                                          count_ok))]
       ELSE st

\* the store outcomes that can tell two runs of the stored intents apart
tool_call_outcomes(calls) ==
    IF \E i \in 1..Len(calls) : Get(calls[i], "name", "") = "record_landmark"
    THEN StoreOutcomes ELSE {"ok"}

RECURSIVE handle_tool_calls(_, _, _, _, _, _, _)
handle_tool_calls(st, sid, calls, lat, lon, outcome, count_ok) ==
    IF calls = <<>> THEN st
    ELSE handle_tool_calls(handle_tool_call(st, sid, Head(calls), lat, lon,
                                            outcome, count_ok),
                           sid, Tail(calls), lat, lon, outcome, count_ok)

\* ------------------------------------------------------------------------
\*  The connection task: websocket_agent, orchestrate_with_fallback,
\*  orchestrate
\* ------------------------------------------------------------------------

NewSession ==
    [last_clear_direction |-> NoneStr, last_clear_distance |-> NoneNum,
     frame_count |-> 0, hazard_count |-> 0, sensor_data |-> EmptyDict]

RECURSIVE SumField(_, _, _)
SumField(F, keys, field) ==
    IF keys = {} THEN 0
    ELSE LET k == CHOOSE x \in keys : TRUE
         IN F[k][field] + SumField(F, keys \ {k}, field)

RECURSIVE SumValues(_, _)
SumValues(F, keys) ==
    IF keys = {} THEN 0
    ELSE LET k == CHOOSE x \in keys : TRUE IN F[k] + SumValues(F, keys \ {k})

TotalVideoFrames == SumField(active_sessions, DOMAIN active_sessions, "frame_count")

TotalHazardFrames == SumValues(hz_frame_counter, DOMAIN hz_frame_counter)

TurnWork == 2 * TotalVideoFrames + TotalHazardFrames + Len(journey_log)

\* sensor = input_data.pop("sensor_data", None); if sensor: store it
with_sensor(A, sid, m) ==
    LET sensor == Get(m, "sensor_data", EmptyDict)
    IN IF sensor # EmptyDict THEN [A EXCEPT ![sid].sensor_data = sensor] ELSE A

\* the turn in flight: input_data after the pop, and the connection it came on
turn_of(sid, m) ==
    [k \in (DOMAIN m \ {"sensor_data"}) \cup {"session_id"} |->
        IF k = "session_id" THEN sid ELSE m[k]]

sensor_lat(A, sid) == Get(A[sid].sensor_data, "lat", NoneNum)

sensor_lon(A, sid) == Get(A[sid].sensor_data, "lon", NoneNum)

\* orchestrate returned
Return(result) ==
    /\ raised' = "none"
    /\ response' = result
    /\ pc' = "respond"

\* orchestrate raised and orchestrate_with_fallback answered for it
Raise(exc, A, sid) ==
    /\ raised' = exc
    /\ response' = fallback_response(A, sid, exc)
    /\ pc' = "respond"

\* the connection set-up of websocket_agent
Connect ==
    \E sid \in SessionIds :
        /\ pc = "idle"
        /\ sid \notin DOMAIN active_sessions
        /\ client_sessions' = [c \in Clients |-> client_sessions[c] \cup {sid}]
        /\ active_sessions' = active_sessions @@ (sid :> NewSession)
        /\ UNCHANGED <<ctx_vars, pending_tool_calls, scene_frame_index,
                       scene_context_buffer, hz_history, hz_frame_counter,
                       journey_log, store_vars, turn_vars>>

\* a video_frame turn up to the gather of the three calls; it is taken while
\* its frame and its hazard frame still fit in MaxWork
VideoFrameStart ==
    \E sid \in DOMAIN active_sessions, m \in Messages :
        LET A1 == with_sensor(active_sessions, sid, m)
            A2 == [A1 EXCEPT ![sid].frame_count = @ + 1]
        IN
        /\ pc = "idle"
        /\ m.type = "video_frame"
        /\ TurnWork + 3 <= MaxWork
        /\ msg' = turn_of(sid, m)
        /\ active_sessions' = A2
        /\ cm_sessions' = get_or_create(cm_sessions, sid)
        /\ cleaned' = NoResults
        /\ IF "data" \in DOMAIN m
           THEN /\ branch' = [scene |-> Started, hazard |-> Started, audio |-> Started]
                /\ pc' = "gather"
                /\ UNCHANGED <<raised, response>>
           ELSE /\ Raise("Exception", A2, sid)
                /\ UNCHANGED branch
        /\ UNCHANGED <<last_add, agent_vars, store_vars>>

\* scene_agent.analyze_frame ends
SceneBranch ==
    /\ pc = "gather"
    /\ branch.scene = Started
    /\ \E o \in send_multimodal(client_sessions, "scene", msg.session_id, SceneResponses) :
        /\ IF o.status = "returned"
           THEN /\ branch' = [branch EXCEPT !.scene =
                                Returned(scene_response(o.value, scene_frame_index))]
                /\ pending_tool_calls' =
                       store_tool_calls(pending_tool_calls, "scene", msg.session_id, o.value)
                /\ scene_frame_index' = scene_frame_index + 1
                /\ scene_context_buffer' =
                       scene_buffer_after(scene_context_buffer, scene_frame_index)
           ELSE /\ branch' = [branch EXCEPT !.scene = o]
                /\ UNCHANGED <<pending_tool_calls, scene_frame_index,
                               scene_context_buffer>>
        /\ UNCHANGED <<ctx_vars, active_sessions, client_sessions, hz_history,
                       hz_frame_counter, journey_log, store_vars,
                       pc, msg, cleaned, raised, response>>

\* hazard_agent.detect_hazards answered: history, counter and stored intents
HazardAnswered(sid, answer) ==
    /\ hz_history' = hazard_history_after(hz_history, sid, with_function_calls(answer),
                                          Get(hz_frame_counter, sid, 0))
    /\ hz_frame_counter' = hazard_counter_after(hz_frame_counter, sid)
    /\ pending_tool_calls' = store_tool_calls(pending_tool_calls, "hazard", sid, answer)

\* hazard_agent.detect_hazards ends
HazardBranch ==
    /\ pc = "gather"
    /\ branch.hazard = Started
    /\ \E o \in send_multimodal(client_sessions, "hazard", msg.session_id, HazardResponses) :
        /\ IF o.status = "returned"
           THEN /\ branch' = [branch EXCEPT !.hazard =
                                Returned(with_function_calls(o.value))]
                /\ HazardAnswered(msg.session_id, o.value)
           ELSE /\ branch' = [branch EXCEPT !.hazard = o]
                /\ UNCHANGED <<pending_tool_calls, hz_history, hz_frame_counter>>
        /\ UNCHANGED <<ctx_vars, active_sessions, client_sessions, scene_frame_index,
                       scene_context_buffer, journey_log, store_vars,
                       pc, msg, cleaned, raised, response>>

\* audio_agent.generate_audio_params ends
AudioBranch ==
    /\ pc = "gather"
    /\ branch.audio = Started
    /\ \E o \in send_multimodal(client_sessions, "audio", msg.session_id, AudioResponses) :
        /\ IF o.status = "returned"
           THEN /\ branch' = [branch EXCEPT !.audio =
                                Returned(with_function_calls(o.value))]
                /\ pending_tool_calls' =
                       store_tool_calls(pending_tool_calls, "audio", msg.session_id, o.value)
           ELSE /\ branch' = [branch EXCEPT !.audio = o]
                /\ UNCHANGED pending_tool_calls
        /\ UNCHANGED <<ctx_vars, active_sessions, client_sessions, scene_frame_index,
                       scene_context_buffer, hz_history, hz_frame_counter,
                       journey_log, store_vars, pc, msg, cleaned, raised, response>>

\* a cleaning that keeps the exception in the place of the result
cleaned_result_keeps_exception(b) ==
    IF b.status = "raised" THEN [error |-> b.exc] ELSE b.value

\* one result of asyncio.gather(..., return_exceptions=True), cleaned
cleaned_result(b) == IF b.status = "raised" THEN EmptyDict ELSE b.value

\* gather has all three results
gather_done(b) ==
    /\ b.scene.status \in {"returned", "raised"}
    /\ b.hazard.status \in {"returned", "raised"}
    /\ b.audio.status \in {"returned", "raised"}

\* gather without return_exceptions: the first exception is let through
gather_raises_first(b) ==
    IF b.scene.status = "raised" THEN b.scene.exc
    ELSE IF b.hazard.status = "raised" THEN b.hazard.exc
    ELSE IF b.audio.status = "raised" THEN b.audio.exc
    ELSE "none"

\* the exception gather(..., return_exceptions=True) lets through: none
gather_raises(b) == "none"

\* the persistence writes of a video turn after the stored intents: the
\* scene snapshot, the hazard events, the frame push to the ring buffer
PersistenceWrites == {"snapshot", "hazard_event", "frame_push"}

\* the writes without their try: a failing write is let through
persistence_raises_unwrapped(failed) ==
    IF failed # {} THEN "Exception" ELSE "none"

\* the exception the writes let through, each in its own try/except: none
persistence_raises(failed) == "none"

\* the imminent hazards counted into the session's hazard_count
counted_hazards(hazard_result) ==
    Len(SelectSeq(Get(hazard_result, "imminent_hazards", <<>>), IsDict))

\* the three results of gather
cleaned_results(b) ==
    [scene_result |-> cleaned_result(b.scene),
     hazard_result |-> cleaned_result(b.hazard),
     audio_result |-> cleaned_result(b.audio)]

\* gather is over: the results are cleaned, then come the context update,
\* the landmark ingestion, the stored intents and the persistence writes;
\* any of the writes to the snapshot table, the hazard-event table and the
\* frame ring buffer may fail, and none leaves anything the turn reads
VideoGathered ==
    LET sid == msg.session_id
        res == cleaned_results(branch)
        scene == res.scene_result
        lat == sensor_lat(active_sessions, sid)
        lon == sensor_lon(active_sessions, sid)
        cands == landmark_candidates(scene, active_sessions[sid].frame_count, lat, lon)
        calls == popped_tool_calls(pending_tool_calls, "scene", sid)
                 \o popped_tool_calls(pending_tool_calls, "hazard", sid)
    IN
    /\ pc = "gather"
    /\ gather_done(branch)
    /\ IF gather_raises(branch) # "none"
       THEN /\ Raise(gather_raises(branch), active_sessions, sid)
            /\ UNCHANGED <<cm_sessions, store_vars, pending_tool_calls,
                           active_sessions, cleaned>>
       ELSE \E count_ok \in BOOLEAN, outcomes \in [1..Len(cands) -> StoreOutcomes],
               tc_outcome \in tool_call_outcomes(calls),
               failed \in SUBSET PersistenceWrites :
            LET summary_text == Get(scene, "summary", "")
                cm1 == IF Truthy(summary_text)
                       THEN add_observation(cm_sessions, sid, summary_text,
                                            "observation",
                                            turn_tokens(summary_text, count_ok))
                       ELSE cm_sessions
                st1 == extract_and_store_landmarks(
                           Stores(cm1, db_landmarks, cache_landmarks), sid, scene,
                           active_sessions[sid].frame_count, lat, lon, outcomes,
                           count_ok)
                st2 == handle_tool_calls([st1 EXCEPT !.ok = TRUE], sid, calls,
                                         lat, lon, tc_outcome, count_ok)
            IN
            /\ cleaned' = res
            /\ cm_sessions' = st2.cm
            /\ db_landmarks' = st2.db
            /\ cache_landmarks' = st2.cache
            /\ pending_tool_calls' =
                   pop_tool_calls(pop_tool_calls(pending_tool_calls, "scene", sid),
                                  "hazard", sid)
            /\ active_sessions' =
                   [active_sessions EXCEPT ![sid].hazard_count =
                        @ + counted_hazards(res.hazard_result)]
            /\ IF persistence_raises(failed) # "none"
               THEN Raise(persistence_raises(failed), active_sessions, sid)
               ELSE /\ pc' = "reaudio"
                    /\ UNCHANGED <<raised, response>>
    /\ UNCHANGED <<last_add, client_sessions, scene_frame_index,
                   scene_context_buffer, hz_history, hz_frame_counter,
                   journey_log, msg, branch>>

\* a second audio call whose failure loses the first call's result
audio_after_second_call_losing_first(first, o) ==
    IF o.status = "returned" THEN with_function_calls(o.value) ELSE EmptyDict

\* the audio result after the second audio call: kept when the call raises
audio_after_second_call(first, o) ==
    IF o.status = "returned" THEN with_function_calls(o.value) ELSE first

\* the second generate_audio_params call, with the scene and hazard results
VideoReAudio ==
    /\ pc = "reaudio"
    /\ \E o \in send_multimodal(client_sessions, "audio", msg.session_id, ReAudioResponses) :
        /\ cleaned' = [cleaned EXCEPT !.audio_result =
                          audio_after_second_call(cleaned.audio_result, o)]
        /\ pending_tool_calls' =
               IF o.status = "returned"
               THEN store_tool_calls(pending_tool_calls, "audio", msg.session_id, o.value)
               ELSE pending_tool_calls
        /\ pc' = "merge"
        /\ UNCHANGED <<ctx_vars, active_sessions, client_sessions, scene_frame_index,
                       scene_context_buffer, hz_history, hz_frame_counter,
                       journey_log, store_vars, msg, branch, raised, response>>

\* the merge into the final response; min() raises TypeError on None
VideoMerge ==
    LET sid == msg.session_id
        A1 == [active_sessions EXCEPT
                 ![sid].last_clear_direction = merged_direction(cleaned.scene_result),
                 ![sid].last_clear_distance = merged_distance(cleaned.scene_result)]
    IN
    /\ pc = "merge"
    /\ active_sessions' = A1
    /\ IF raw_confidence(cleaned.scene_result) = NoneNum
       THEN /\ Raise("Exception", A1, sid)
            /\ UNCHANGED cm_sessions
       ELSE /\ Return(merged_response(cleaned, get_stats(cm_sessions, sid),
                                      A1[sid].frame_count))
            /\ cm_sessions' = get_or_create(cm_sessions, sid)
    /\ UNCHANGED <<last_add, agent_vars, store_vars, msg, branch, cleaned>>

\* nav_agent.route_to_destination, as the rest of a turn
RouteToDestination(sid, destination, A) ==
    \E o \in send_multimodal(client_sessions, "nav", sid, NavResponses) :
        IF o.status = "returned"
        THEN /\ journey_log' = journey_log_after(journey_log, destination,
                                                 with_function_calls(o.value))
             /\ pending_tool_calls' = store_tool_calls(pending_tool_calls, "nav", sid, o.value)
             /\ Return(with_function_calls(o.value))
        ELSE /\ Raise(o.exc, A, sid)
             /\ UNCHANGED <<journey_log, pending_tool_calls>>

\* spatial_memory.recall and nav_agent.handle_memory_query, as the rest of a
\* turn: the cache read, the store reads and the synthesis call run one
\* after the other and none is guarded; the cache read fails with the
\* RuntimeError of redis_client._r, a store read with the driver's exception
Recall(sid, query, A) ==
    \E cache_ok \in BOOLEAN, db_ok \in BOOLEAN,
       o \in send_multimodal(client_sessions, "memory", sid, MemoryResponses) :
        LET matches == recall_matches(cache_landmarks, db_landmarks, sid, query,
                                      sensor_lat(A, sid), sensor_lon(A, sid))
        IN IF ~cache_ok
           THEN /\ Raise("RuntimeError", A, sid)
                /\ UNCHANGED pending_tool_calls
           ELSE IF ~db_ok
           THEN /\ Raise("Exception", A, sid)
                /\ UNCHANGED pending_tool_calls
           ELSE IF o.status = "raised"
           THEN /\ Raise(o.exc, A, sid)
                /\ UNCHANGED pending_tool_calls
           ELSE /\ pending_tool_calls' =
                       store_tool_calls(pending_tool_calls, "memory", sid, o.value)
                /\ Return(handle_memory_query(
                       query, recall_result(query, matches, with_function_calls(o.value))))

\* a routing in which no voice command is taken for a recall
is_recall_command_never(text) == FALSE

\* "where" in text.lower(): the voice command asks spatial memory
is_recall_command(text) == Substring("where", Lower(text))

\* the head of every turn that is not a video_frame
TurnHead(sid, m) ==
    /\ pc = "idle"
    /\ msg' = turn_of(sid, m)
    /\ active_sessions' = with_sensor(active_sessions, sid, m)
    /\ cm_sessions' = get_or_create(cm_sessions, sid)
    /\ UNCHANGED <<last_add, client_sessions, scene_frame_index, scene_context_buffer,
                   store_vars, branch, cleaned>>

TextQuery ==
    \E sid \in DOMAIN active_sessions, m \in Messages :
        /\ m.type = "text_query"
        /\ TurnWork < MaxWork
        /\ TurnHead(sid, m)
        /\ RouteToDestination(sid, m.destination, with_sensor(active_sessions, sid, m))
        /\ UNCHANGED <<hz_history, hz_frame_counter>>

VoiceCommand ==
    \E sid \in DOMAIN active_sessions, m \in Messages :
        LET text == Get(m, "text", "")
            A1 == with_sensor(active_sessions, sid, m)
        IN
        /\ m.type = "voice_command"
        /\ TurnHead(sid, m)
        /\ IF is_recall_command(text)
           THEN /\ Recall(sid, recall_query(text), A1)
                /\ UNCHANGED journey_log
           ELSE /\ TurnWork < MaxWork
                /\ RouteToDestination(sid, text, A1)
        /\ UNCHANGED <<hz_history, hz_frame_counter>>

AudioChunk ==
    \E sid \in DOMAIN active_sessions, m \in Messages :
        /\ m.type = "audio_chunk"
        /\ TurnWork < MaxWork
        /\ TurnHead(sid, m)
        /\ \E o \in send_multimodal(client_sessions, "hazard", sid, HazardResponses) :
              IF o.status = "returned"
              THEN /\ HazardAnswered(sid, o.value)
                   /\ Return(with_function_calls(o.value))
              ELSE /\ Raise(o.exc, with_sensor(active_sessions, sid, m), sid)
                   /\ UNCHANGED <<pending_tool_calls, hz_history, hz_frame_counter>>
        /\ UNCHANGED journey_log

MemoryQuery ==
    \E sid \in DOMAIN active_sessions, m \in Messages :
        /\ m.type = "memory_query"
        /\ TurnHead(sid, m)
        /\ Recall(sid, Get(m, "query", ""), with_sensor(active_sessions, sid, m))
        /\ UNCHANGED <<journey_log, hz_history, hz_frame_counter>>

\* any other type is routed
OtherTurn ==
    \E sid \in DOMAIN active_sessions, m \in Messages :
        /\ m.type \notin {"video_frame", "text_query", "voice_command",
                          "audio_chunk", "memory_query"}
        /\ TurnWork < MaxWork
        /\ TurnHead(sid, m)
        /\ RouteToDestination(sid, Get(m, "destination", ""),
                              with_sensor(active_sessions, sid, m))
        /\ UNCHANGED <<hz_history, hz_frame_counter>>

\* websocket.send_json(result); the loop waits for the next turn
Send ==
    /\ pc = "respond"
    /\ pc' = "idle"
    /\ msg' = NoMsg
    /\ branch' = NoBranches
    /\ cleaned' = NoResults
    /\ raised' = "none"
    /\ response' = NoResponse
    /\ UNCHANGED <<ctx_vars, active_sessions, agent_vars, store_vars>>

TurnInit ==
    /\ cm_sessions = [sid \in {} |-> SessionContext(sid)]
    /\ last_add = NoCall
    /\ ModuleInit

TurnNext ==
    \/ Connect
    \/ VideoFrameStart
    \/ SceneBranch
    \/ HazardBranch
    \/ AudioBranch
    \/ VideoGathered
    \/ VideoReAudio
    \/ VideoMerge
    \/ TextQuery
    \/ VoiceCommand
    \/ AudioChunk
    \/ MemoryQuery
    \/ OtherTurn
    \/ Send

SpecTurn == TurnInit /\ [][TurnNext]_vars

\* ------------------------------------------------------------------------
\*  The context manager driven directly
\* ------------------------------------------------------------------------

RECURSIVE SumFrames(_, _)
SumFrames(S, sids) ==
    IF sids = {} THEN 0
    ELSE LET sid == CHOOSE x \in sids : TRUE
         IN S[sid].frame_counter + SumFrames(S, sids \ {sid})

TotalFrames == SumFrames(cm_sessions, DOMAIN cm_sessions)

not_ctx_vars == <<active_sessions, agent_vars, store_vars, turn_vars>>

CtxInit ==
    /\ cm_sessions = [sid \in {} |-> SessionContext(sid)]
    /\ last_add = NoCall
    /\ ModuleInit

CtxAddObservation ==
    \E sid \in SessionIds, text \in Texts, entry_type \in EntryTypes,
       api_ok \in BOOLEAN :
        \E api_tokens \in ApiTokenCounts(text) :
        LET tokens == count_tokens(text, api_ok, api_tokens) IN
        /\ TotalFrames < MaxFrames
        /\ cm_sessions' = add_observation(cm_sessions, sid, text, entry_type, tokens)
        /\ last_add' = add_observation_record(cm_sessions, sid, text, entry_type,
                                              tokens, api_ok)
        /\ UNCHANGED not_ctx_vars

CtxBuildContextString ==
    \E sid \in SessionIds :
        /\ cm_sessions' = get_or_create(cm_sessions, sid)
        /\ UNCHANGED <<last_add, not_ctx_vars>>

CtxGetStats ==
    \E sid \in SessionIds :
        /\ cm_sessions' = get_or_create(cm_sessions, sid)
        /\ UNCHANGED <<last_add, not_ctx_vars>>

CtxRemoveSession ==
    \E sid \in SessionIds :
        /\ cm_sessions' = remove_session(cm_sessions, sid)
        /\ UNCHANGED <<last_add, not_ctx_vars>>

CtxNext ==
    \/ CtxAddObservation
    \/ CtxBuildContextString
    \/ CtxGetStats
    \/ CtxRemoveSession

SpecCtx == CtxInit /\ [][CtxNext]_vars

\* ------------------------------------------------------------------------
\*  SpatialMemory driven directly
\* ------------------------------------------------------------------------

\* the session SpatialMemory is driven for
MemSessions == {"s1"}

\* the landmarks record_landmark is called with
LandmarkInputs ==
    { [label |-> "Fountain", description |-> "", direction |-> "left",
       distance_feet |-> 8, frame_index |-> 0, lat |-> 40, lon |-> 74],
      [label |-> "Gate", description |-> "north", direction |-> NoneStr,
       distance_feet |-> NoneNum, frame_index |-> 0, lat |-> NoneNum,
       lon |-> NoneNum] }

\* the queries recall is called with
RecallQueries == {"Fountain", "gate"}

\* the geo arguments: a whole point, a latitude alone, none
GeoPoints == { [lat |-> 40, lon |-> 74], [lat |-> 40, lon |-> NoneNum],
               [lat |-> NoneNum, lon |-> NoneNum] }

\* the scene results extract_and_store_landmarks is called with: a string
\* and a dict feature, a dict obstacle and an obstacle that is not a dict
ExtractScenes ==
    { [spatial_features |-> <<[__nondict__ |-> "fountain"],
                              [label |-> "Fountain", direction |-> "left",
                               distance_feet |-> 8]>>,
       obstacles |-> <<[name |-> "Gate", location |-> "ahead"],
                       [__nondict__ |-> "pole"]>>] }

mem_frame == <<last_add, active_sessions, client_sessions, scene_frame_index, scene_context_buffer, hz_history, hz_frame_counter, journey_log, branch, cleaned>>

\* the session is connected and nothing has been recorded
MemInit ==
    /\ cm_sessions = [sid \in {} |-> SessionContext(sid)]
    /\ last_add = NoCall
    /\ active_sessions = [sid \in MemSessions |-> NewSession]
    /\ client_sessions = [c \in Clients |-> MemSessions]
    /\ pending_tool_calls = [c \in Clients |-> [sid \in {} |-> <<>>]]
    /\ scene_frame_index = 0
    /\ scene_context_buffer = <<>>
    /\ hz_history = [sid \in {} |-> <<>>]
    /\ hz_frame_counter = [sid \in {} |-> 0]
    /\ journey_log = <<>>
    /\ db_landmarks = <<>>
    /\ cache_landmarks = [sid \in {} |-> <<>>]
    /\ pc = "idle"
    /\ msg = NoMsg
    /\ branch = NoBranches
    /\ cleaned = NoResults
    /\ raised = "none"
    /\ response = NoResponse

\* one call of record_landmark; msg keeps the call and what the stores did,
\* response the returned id
MemRecordLandmark ==
    \E sid \in MemSessions, lm \in LandmarkInputs, outcome \in StoreOutcomes :
        LET st == record_landmark(Stores(cm_sessions, db_landmarks, cache_landmarks),
                                  sid, lm, outcome, TRUE)
        IN /\ pc = "idle"
           /\ Len(db_landmarks) < MaxLandmarks
           /\ pc' = "respond"
           /\ cm_sessions' = st.cm
           /\ db_landmarks' = st.db
           /\ cache_landmarks' = st.cache
           /\ msg' = [type |-> "record_landmark", session_id |-> sid,
                      label |-> lm.label, outcome |-> outcome]
           /\ raised' = IF st.ok THEN "none" ELSE "Exception"
           /\ response' = IF st.ok THEN [lm_id |-> st.ids[1]] ELSE NoResponse
           /\ UNCHANGED <<mem_frame, pending_tool_calls>>

\* one call of extract_and_store_landmarks, with a whole geo point or none;
\* at most one of its writes fails
MemExtract ==
    \E sid \in MemSessions, scene \in ExtractScenes, geo \in GeoPoints,
       failed \in 0..3, kind \in {"db_fail", "cache_fail"} :
        LET cands == landmark_candidates(scene, 1, geo.lat, geo.lon)
            outcomes == [i \in 1..Len(cands) |-> IF i = failed THEN kind ELSE "ok"]
            st == extract_and_store_landmarks(
                      Stores(cm_sessions, db_landmarks, cache_landmarks),
                      sid, scene, 1, geo.lat, geo.lon, outcomes, TRUE)
        IN /\ pc = "idle"
           /\ geo.lat = NoneNum \/ geo.lon # NoneNum
           /\ Len(db_landmarks) + Len(cands) <= MaxLandmarks
           /\ pc' = "respond"
           /\ cm_sessions' = st.cm
           /\ db_landmarks' = st.db
           /\ cache_landmarks' = st.cache
           /\ msg' = [type |-> "extract_and_store_landmarks", session_id |-> sid,
                      scene_result |-> scene, failed |-> failed]
           /\ raised' = IF st.ok THEN "none" ELSE "Exception"
           /\ response' = IF st.ok THEN [ids |-> st.ids] ELSE NoResponse
           /\ UNCHANGED <<mem_frame, pending_tool_calls>>

\* one call of recall; msg keeps the call and the lookups it issued
MemRecall ==
    \E sid \in MemSessions, query \in RecallQueries, geo \in GeoPoints,
       cache_ok \in BOOLEAN, db_ok \in BOOLEAN :
    \E o \in send_multimodal(client_sessions, "memory", sid, MemoryResponses) :
        LET matches == recall_matches(cache_landmarks, db_landmarks, sid, query,
                                      geo.lat, geo.lon)
            returns == cache_ok /\ db_ok /\ o.status = "returned"
        IN /\ pc = "idle"
           /\ pc' = "respond"
           /\ msg' = [type |-> "recall", session_id |-> sid, query |-> query,
                      lat |-> geo.lat, lon |-> geo.lon,
                      issued |-> IF ~cache_ok THEN <<"cache">>
                                 ELSE IF ~db_ok THEN <<"cache", "database">>
                                 ELSE recall_queries(geo.lat, geo.lon)]
           /\ cm_sessions' = IF cache_ok /\ db_ok
                             THEN get_or_create(cm_sessions, sid) ELSE cm_sessions
           /\ pending_tool_calls' =
                  IF returns
                  THEN store_tool_calls(pending_tool_calls, "memory", sid, o.value)
                  ELSE pending_tool_calls
           /\ raised' = IF returns THEN "none"
                        ELSE IF ~cache_ok THEN "RuntimeError"
                        ELSE IF ~db_ok THEN "Exception" ELSE o.exc
           /\ response' = IF returns
                          THEN recall_result(query, matches,
                                             with_function_calls(o.value))
                          ELSE NoResponse
           /\ UNCHANGED <<mem_frame, store_vars>>

\* the caller has the result of the call, or its exception
MemReturn ==
    /\ pc = "respond"
    /\ pc' = "idle"
    /\ msg' = NoMsg
    /\ raised' = "none"
    /\ response' = NoResponse
    /\ UNCHANGED <<cm_sessions, mem_frame, pending_tool_calls, store_vars>>

MemNext ==
    \/ MemRecordLandmark
    \/ MemExtract
    \/ MemRecall
    \/ MemReturn

SpecMem == MemInit /\ [][MemNext]_vars

\* ------------------------------------------------------------------------
\*  The hazard agent driven directly
\* ------------------------------------------------------------------------

\* the answer of the hazard capability in a long run of calls
HzAnswers == {a \in HazardResponses : "recommended_action" \in DOMAIN a.result}

hz_frame == <<ctx_vars, active_sessions, client_sessions, scene_frame_index, scene_context_buffer, journey_log, store_vars, pc, branch, cleaned, raised, response>>

\* both sessions are connected and no frame has been analysed
HzInit ==
    /\ cm_sessions = [sid \in {} |-> SessionContext(sid)]
    /\ last_add = NoCall
    /\ active_sessions = [sid \in SessionIds |-> NewSession]
    /\ client_sessions = [c \in Clients |-> SessionIds]
    /\ pending_tool_calls = [c \in Clients |-> [sid \in {} |-> <<>>]]
    /\ scene_frame_index = 0
    /\ scene_context_buffer = <<>>
    /\ hz_history = [sid \in {} |-> <<>>]
    /\ hz_frame_counter = [sid \in {} |-> 0]
    /\ journey_log = <<>>
    /\ db_landmarks = <<>>
    /\ cache_landmarks = [sid \in {} |-> <<>>]
    /\ pc = "idle"
    /\ msg = NoMsg
    /\ branch = NoBranches
    /\ cleaned = NoResults
    /\ raised = "none"
    /\ response = NoResponse

\* one call of detect_hazards: the prompt is built from the frame counter
\* and the temporal context before the capability is called, and a call
\* that raises leaves the history alone; msg keeps the call and its prompt
HzDetectHazards ==
    \E sid \in SessionIds :
        /\ Get(hz_frame_counter, sid, 0) < MaxHazardCalls
        /\ msg' = [type |-> "detect_hazards", session_id |-> sid,
                   frame_idx |-> Get(hz_frame_counter, sid, 0),
                   temporal_ctx |-> temporal_context(hz_history, sid)]
        /\ \E o \in send_multimodal(client_sessions, "hazard", sid, HzAnswers) :
              IF o.status = "returned"
              THEN HazardAnswered(sid, o.value)
              ELSE UNCHANGED <<pending_tool_calls, hz_history, hz_frame_counter>>
        /\ UNCHANGED hz_frame

\* clear_session
HzClearSession ==
    \E sid \in SessionIds :
        /\ hz_history' = clear_session(hz_history, sid)
        /\ hz_frame_counter' = clear_session(hz_frame_counter, sid)
        /\ UNCHANGED <<hz_frame, msg, pending_tool_calls>>

HzNext ==
    \/ HzDetectHazards
    \/ HzClearSession

SpecHazard == HzInit /\ [][HzNext]_vars

\* ------------------------------------------------------------------------
\*  Connections that come and go: set-up, turns without video, teardown
\* ------------------------------------------------------------------------

\* the clients whose create_live_stream succeeded in a set-up that failed:
\* none, the first one only, all but the last one
PartialSetups == { {}, {"scene"}, Clients \ {"memory"} }

\* a set-up in which create_live_stream fails on some client: gather raises
\* out of websocket_agent before the try, the calls that succeed have
\* registered their session
ConnectFails ==
    \E sid \in SessionIds, opened \in PartialSetups :
        /\ pc = "idle"
        /\ sid \notin DOMAIN active_sessions
        /\ client_sessions' = [c \in Clients |->
                                  IF c \in opened THEN client_sessions[c] \cup {sid}
                                  ELSE client_sessions[c]]
        /\ UNCHANGED <<ctx_vars, active_sessions, pending_tool_calls,
                       scene_frame_index, scene_context_buffer, hz_history,
                       hz_frame_counter, journey_log, store_vars, turn_vars>>

\* close_session on every client
close_sessions(CS, sid) == [c \in Clients |-> CS[c] \ {sid}]

\* the statistics handed to crud.end_session, and whether they were stored
end_session(A, sid, stored) ==
    [total_frames |-> A[sid].frame_count, total_hazards |-> A[sid].hazard_count,
     stored |-> stored]

\* the finally block of websocket_agent: the client went away while the loop
\* waited for a turn, or sending the answer of its turn failed
Teardown ==
    \E sid \in DOMAIN active_sessions, stored \in BOOLEAN :
        /\ pc = "idle" \/ (pc = "respond" /\ msg.session_id = sid)
        /\ pc' = "idle"
        /\ msg' = [type |-> "disconnect", session_id |-> sid,
                   end_session |-> end_session(active_sessions, sid, stored)]
        /\ client_sessions' = close_sessions(client_sessions, sid)
        /\ hz_history' = clear_session(hz_history, sid)
        /\ hz_frame_counter' = clear_session(hz_frame_counter, sid)
        /\ cm_sessions' = remove_session(cm_sessions, sid)
        /\ active_sessions' =
               [k \in (DOMAIN active_sessions) \ {sid} |-> active_sessions[k]]
        /\ branch' = NoBranches
        /\ cleaned' = NoResults
        /\ raised' = "none"
        /\ response' = NoResponse
        /\ UNCHANGED <<last_add, pending_tool_calls, scene_frame_index,
                       scene_context_buffer, journey_log, store_vars>>

ConnNext ==
    \/ Connect
    \/ ConnectFails
    \/ TextQuery
    \/ VoiceCommand
    \/ AudioChunk
    \/ MemoryQuery
    \/ OtherTurn
    \/ Send
    \/ Teardown

SpecConn == TurnInit /\ [][ConnNext]_vars

\* ------------------------------------------------------------------------
\*  Properties of the context manager
\* ------------------------------------------------------------------------

IsPrefix(a, b) == Len(a) <= Len(b) /\ SubSeq(b, 1, Len(a)) = a

InSeq(x, seq) == \E i \in 1..Len(seq) : seq[i] = x

\* the rendered context holds an entry line with this text
Contains(lines, text) ==
    \E i \in 1..Len(lines) : lines[i].frame >= 0 /\ lines[i].text = text

NonLandmarkTokens(ctx) == SumTokens(SelectKind(ctx.entries, FALSE))

\* add_observation ran on sid in this step (nothing else moves frame_counter)
AddStep(sid) ==
    /\ sid \in DOMAIN cm_sessions'
    /\ cm_sessions'[sid].frame_counter =
           get_or_create(cm_sessions, sid)[sid].frame_counter + 1

AddedEntry(sid) == cm_sessions'[sid].entries[Len(cm_sessions'[sid].entries)]

\* C1: after every add_observation the token counts of the non-landmark
\* entries held for a session sum to at most the soft target PRUNE_TARGET,
\* also when one text alone counts more tokens than the soft target.
C1_NonLandmarkTokensWithinTarget ==
    \A sid \in DOMAIN cm_sessions :
        NonLandmarkTokens(cm_sessions[sid]) <= PRUNE_TARGET

C3_LandmarkTextStaysInContext ==
    [][\A sid \in SessionIds :
         AddStep(sid) =>
           LET before == build_context_string(cm_sessions, sid, 0, TRUE)
               after == build_context_string(cm_sessions', sid, 0, TRUE)
               lms == get_or_create(cm_sessions, sid)[sid].landmark_entries
           IN IF AddedEntry(sid).entry_type = "landmark"
              THEN Contains(after, AddedEntry(sid).text)
              ELSE \A i \in 1..Len(lms) :
                      Contains(before, lms[i].text) => Contains(after, lms[i].text)]_vars

\* an observation has evicted the landmark "fountain" from the entry buffer
\* and the rendered context still holds its text
C3_Witness ==
    /\ last_add.session_id \in DOMAIN cm_sessions
    /\ last_add.evicted # <<>>
    /\ last_add.entry.entry_type = "observation"
    /\ last_add.entry.text = "bigText"
    /\ LET ctx == cm_sessions[last_add.session_id]
       IN /\ \E i \in 1..Len(ctx.landmark_entries) :
                ctx.landmark_entries[i].text = "fountain"
          /\ \A i \in 1..Len(ctx.entries) : ctx.entries[i].text # "fountain"
          /\ Contains(build_context_string(cm_sessions, last_add.session_id, 0, TRUE),
                      "fountain")

\* ------------------------------------------------------------------------
\*  Properties of the turns
\* ------------------------------------------------------------------------

VideoTurn == msg.type = "video_frame"

\* the three calls of a video_frame turn were made and are over
Gathered == VideoTurn /\ gather_done(branch)

\* the turn is a video_frame turn that returned the merged response
MergedReturned == pc = "respond" /\ VideoTurn /\ raised = "none"

\* what a branch of gather contributes: its own result, or nothing
Own(b) == IF b.status = "returned" THEN b.value ELSE EmptyDict

\* the list a hazard result carries its hazards in
HazardEntries(hv) ==
    IF "imminent_hazards" \in DOMAIN hv THEN hv.imminent_hazards
    ELSE IF "hazards" \in DOMAIN hv THEN hv.hazards ELSE <<>>

\* every dict entry of a hazard list is in the response's hazards
Carried(entries, hazards) ==
    \A i \in 1..Len(entries) :
        IsDict(entries[i]) => InSeq(from_hazard(entries[i]), hazards)

\* the results the second audio call can return
SecondAudioResults == {with_function_calls(a) : a \in ReAudioResponses}

\* C4: every merged video_frame response has a confidence between 0 and
\* 0.95, whatever the scene result carries as its confidence.
C4_ConfidenceWithinRange ==
    MergedReturned => 0 <= response.confidence /\ response.confidence <= CONFIDENCE_CAP

\* C5: when the scene call raises and the hazard and audio calls return, the
\* turn raises nothing and its merged response carries the hazard
\* capability's entries and an audio capability result, with direction ""
\* and distance 0.
C5_SceneFailureStillMerges ==
    (/\ pc = "respond" /\ Gathered
     /\ branch.scene.status = "raised"
     /\ branch.hazard.status = "returned"
     /\ branch.audio.status = "returned")
    => /\ raised = "none"
       /\ response.direction = ""
       /\ response.distance_feet = 0
       /\ Carried(HazardEntries(branch.hazard.value), response.hazards)
       /\ Len(response.hazards) =
              Len(SelectSeq(HazardEntries(branch.hazard.value), IsDict))
       /\ response.audio \in {branch.audio.value} \cup SecondAudioResults

C5_Witness ==
    /\ pc = "respond" /\ Gathered
    /\ branch.scene.status = "raised"
    /\ branch.hazard.status = "returned"
    /\ branch.audio.status = "returned"
    /\ Len(response.hazards) = 1
    /\ response.audio = branch.audio.value

\* the merge of a video_frame turn from the branches' own results, with the
\* audio result given
MergedFromOwn(audio) ==
    merged_response([scene_result |-> Own(branch.scene),
                     hazard_result |-> Own(branch.hazard),
                     audio_result |-> audio],
                    response.context_stats, response.frame_count)

\* what C6 says of every branch but the audio one
BranchesIsolated ==
    /\ (pc = "gather" =>
            \A c \in {"scene", "hazard", "audio"} : branch[c].status # "none")
    /\ (VideoTurn /\ pc \in {"reaudio", "merge"}) =>
           /\ gather_done(branch)
           /\ cleaned.scene_result = Own(branch.scene)
           /\ cleaned.hazard_result = Own(branch.hazard)
    /\ (pc = "respond" /\ Gathered /\ raised # "none") =>
           /\ branch.scene.status = "returned"
           /\ raw_confidence(branch.scene.value) = NoneNum

\* C6 as stated: the three calls are all started before any is over, every
\* failing branch contributes an empty result, every other branch runs to
\* its end and its own result is the one merged, and no failure fails the
\* turn.
C6_OwnResultsMerged ==
    /\ BranchesIsolated
    /\ (VideoTurn /\ pc = "reaudio") => cleaned.audio_result = Own(branch.audio)
    /\ MergedReturned => response = MergedFromOwn(Own(branch.audio))

\* C6, amended: as C6, but the audio result merged is the audio branch's own
\* (or empty) result only when the second audio call raised, and the second
\* call's result otherwise.
C6_OwnResultsMergedUnlessEnriched ==
    /\ BranchesIsolated
    /\ (VideoTurn /\ pc = "reaudio") => cleaned.audio_result = Own(branch.audio)
    /\ MergedReturned =>
           \E audio \in {Own(branch.audio)} \cup SecondAudioResults :
               response = MergedFromOwn(audio)

C6_Witness ==
    /\ MergedReturned
    /\ branch.scene.status = "raised"
    /\ branch.hazard.status = "returned"
    /\ branch.audio.status = "raised"
    /\ response.audio = EmptyDict
    /\ response.hazards # <<>>

\* the state a turn leaves behind
persistent_vars == <<ctx_vars, active_sessions, agent_vars, store_vars>>

\* C7: an exception out of orchestrate that is not an APIError is answered
\* with the safe_fallback response ("Stop and wait" and a reason), for every
\* turn type; the answer is sent and the turn is over, with nothing run
\* again.
C7_OtherErrorsGiveSafeFallback ==
    [][/\ (pc' = "respond" /\ raised' = "Exception") =>
              /\ response'.mode = "safe_fallback"
              /\ response'.instruction = "Stop and wait"
              /\ "reason" \in DOMAIN response'
       /\ pc = "respond" =>
              /\ pc' = "idle"
              /\ response' = NoResponse
              /\ UNCHANGED persistent_vars]_vars

C7_Witness ==
    /\ pc = "respond" /\ Gathered
    /\ raised = "Exception"
    /\ response = safe_fallback

\* an analysis capability call of the turn raised an APIError
ApiErrorInTurn ==
    \/ raised = "APIError"
    \/ VideoTurn /\ \E c \in {"scene", "hazard", "audio"} : branch[c] = Raised("APIError")

\* C8: for every turn type, video_frame included, a turn in which an
\* analysis capability call raised an APIError is answered with the
\* fallback_last_known response carrying the session's stored direction and
\* distance and a warning.
C8_ApiErrorGivesLastKnown ==
    (pc = "respond" /\ ApiErrorInTurn) =>
        /\ "mode" \in DOMAIN response
        /\ response.mode = "fallback_last_known"
        /\ response.direction = active_sessions[msg.session_id].last_clear_direction
        /\ response.distance_feet = active_sessions[msg.session_id].last_clear_distance
        /\ "warning" \in DOMAIN response

\* C9: the merged direction is the nested clear_path.direction whenever that
\* key is present, else the flat direction, else ""; the merged distance is
\* the nested clear_path.distance_feet whenever that key is present (0
\* included), else the flat distance_feet, else 0.
C9_NestedKeysWin ==
    MergedReturned =>
        LET scene == Own(branch.scene)
            nested == Get(scene, "clear_path", EmptyDict)
        IN /\ response.direction =
                  IF "direction" \in DOMAIN nested THEN nested.direction
                  ELSE Get(scene, "direction", "")
           /\ response.distance_feet =
                  IF "distance_feet" \in DOMAIN nested THEN nested.distance_feet
                  ELSE Get(scene, "distance_feet", 0)

\* the part of the merged hazards that comes from the scene result
SceneHazards(scene) ==
    mapped_obstacles(Get(scene, "obstacles", <<>>))
    \o mapped_floor_hazards(Get(scene, "floor_hazards", <<>>))

\* C10: a hazard result with its hazards under the flat hazards key and no
\* imminent_hazards key has every dict entry of that list in the merged
\* hazards; with both keys the imminent_hazards list is the one merged.
C10_FlatHazardsKeyIsRead ==
    (MergedReturned /\ branch.hazard.status = "returned") =>
        LET hv == branch.hazard.value
        IN /\ ("imminent_hazards" \notin DOMAIN hv /\ "hazards" \in DOMAIN hv) =>
                  Carried(hv.hazards, response.hazards)
           /\ ("imminent_hazards" \in DOMAIN hv /\ "hazards" \in DOMAIN hv) =>
                  response.hazards =
                      mapped_hazards(hv.imminent_hazards)
                      \o SceneHazards(Own(branch.scene))

C10_Witness ==
    /\ MergedReturned
    /\ branch.hazard.status = "returned"
    /\ "imminent_hazards" \notin DOMAIN branch.hazard.value
    /\ "hazards" \in DOMAIN branch.hazard.value
    /\ \E i \in 1..Len(response.hazards) : response.hazards[i].type = "stairs"

\* the three source lists of the merge of the turn in progress
SourceHazards == HazardEntries(Own(branch.hazard))

SourceObstacles == Get(Own(branch.scene), "obstacles", <<>>)

SourceFloorHazards == Get(Own(branch.scene), "floor_hazards", <<>>)

\* hazards holds the mapped entries of hz, then of ob, then of fh, in order
InSourceOrder(hz, ob, fh, hazards) ==
    /\ Len(hazards) >= Len(hz) + Len(ob) + Len(fh)
    /\ \A i \in 1..Len(hz) : hazards[i] = from_hazard(hz[i])
    /\ \A i \in 1..Len(ob) : hazards[Len(hz) + i] = from_obstacle(ob[i])
    /\ \A i \in 1..Len(fh) :
           hazards[Len(hz) + Len(ob) + i] = from_floor_hazard(fh[i])

\* C11 as stated: the merged hazards of a video_frame response have as many
\* entries as the hazard capability's hazards, the scene's obstacles and the
\* scene's floor_hazards together, mapped and in that order.
C11_LengthIsSumOfSources ==
    MergedReturned =>
        /\ Len(response.hazards) =
               Len(SourceHazards) + Len(SourceObstacles) + Len(SourceFloorHazards)
        /\ InSourceOrder(SourceHazards, SourceObstacles, SourceFloorHazards,
                         response.hazards)

\* C11: the merged hazards of a video_frame response are the mapped dict
\* entries of the hazard capability's hazards, then of the scene's obstacles,
\* then of the scene's floor_hazards, in that order; the length is the number
\* of dict entries of the three lists and nothing is deduplicated.
C11_DictEntriesConcatenated ==
    MergedReturned =>
        /\ Len(response.hazards) =
               Len(Dicts(SourceHazards)) + Len(Dicts(SourceObstacles))
               + Len(Dicts(SourceFloorHazards))
        /\ InSourceOrder(Dicts(SourceHazards), Dicts(SourceObstacles),
                         Dicts(SourceFloorHazards), response.hazards)

\* the hazard capability and the scene both report the person on the left,
\* and the response carries both entries and the floor hazard
C11_Witness ==
    /\ MergedReturned
    /\ Len(SourceHazards) > 0 /\ Len(SourceFloorHazards) > 0
    /\ \E i \in 1..Len(Dicts(SourceHazards)) :
       \E j \in (Len(Dicts(SourceHazards)) + 1)..Len(response.hazards) :
           /\ response.hazards[i].type = response.hazards[j].type
           /\ response.hazards[i].direction = response.hazards[j].direction

\* ------------------------------------------------------------------------
\*  Properties of SpatialMemory
\* ------------------------------------------------------------------------

\* the call whose result is in response
MemCalled(name) == pc = "respond" /\ msg.type = name

MemReturned(name) == MemCalled(name) /\ raised = "none"

\* the step is a record_landmark call in which the stores did this
RecordStep(outcome) ==
    pc = "idle" /\ msg'.type = "record_landmark" /\ msg'.outcome = outcome

LandmarkEntries(S, sid) ==
    IF sid \in DOMAIN S THEN S[sid].landmark_entries ELSE <<>>

CachedRows(sid) == Get(cache_landmarks, sid, <<>>)

\* the evidence of a returned recall
Evidence == response.database_matches

\* C12: a record_landmark whose durable write fails raises and leaves the
\* cache and the context buffer as they were; one that returns has added a
\* row to the durable store and returns that row's id.
C12_DurableWriteFirst ==
    [][/\ RecordStep("db_fail") =>
            /\ raised' = "Exception"
            /\ db_landmarks' = db_landmarks
            /\ cache_landmarks' = cache_landmarks
            /\ cm_sessions' = cm_sessions
       /\ (pc = "idle" /\ msg'.type = "record_landmark" /\ raised' = "none") =>
            /\ Len(db_landmarks') = Len(db_landmarks) + 1
            /\ db_landmarks'[Len(db_landmarks')].label = msg'.label
            /\ "lm_id" \in DOMAIN response'
            /\ response'.lm_id = db_landmarks'[Len(db_landmarks')].id]_vars

\* the durable write failed on stores that already hold landmarks
C12_Witness ==
    /\ MemCalled("record_landmark")
    /\ msg.outcome = "db_fail"
    /\ raised = "Exception"
    /\ db_landmarks # <<>>
    /\ CachedRows(msg.session_id) # <<>>

\* C13 as stated: a record_landmark whose durable write succeeds and whose
\* cache write fails does not raise, appends the landmark entry to the
\* session's context buffer and returns the durable id.
C13_CacheFailureSwallowed ==
    [][RecordStep("cache_fail") =>
          /\ raised' = "none"
          /\ Len(LandmarkEntries(cm_sessions', msg'.session_id)) =
                 Len(LandmarkEntries(cm_sessions, msg'.session_id)) + 1
          /\ "lm_id" \in DOMAIN response'
          /\ response'.lm_id = db_landmarks'[Len(db_landmarks')].id]_vars

\* C14: a recall without a whole geo point issues the cache and the database
\* lookups only, and its evidence has no proximity entry.
C14_NoProximityWithoutGeo ==
    (MemCalled("recall") /\ (msg.lat = NoneNum \/ msg.lon = NoneNum)) =>
        /\ ~InSeq("proximity", msg.issued)
        /\ raised = "none" =>
               \A i \in 1..Len(Evidence) : Evidence[i].source \in {"cache", "database"}

\* a recall with a latitude and no longitude returned evidence, on a store
\* that holds a landmark at that latitude
C14_Witness ==
    /\ MemReturned("recall")
    /\ msg.lat # NoneNum /\ msg.lon = NoneNum
    /\ Evidence # <<>>
    /\ \E i \in 1..Len(db_landmarks) : db_landmarks[i].lat = msg.lat

SourceRank(source) ==
    IF source = "cache" THEN 1 ELSE IF source = "database" THEN 2 ELSE 3

\* C15: the evidence of a recall has at most 10 entries, each tagged cache,
\* database or proximity, the cache matches first, then the database
\* matches, then the proximity matches; it is the first 10 of the three
\* lookups' answers put one after the other, nothing removed.
C15_EvidenceCappedOrderedTagged ==
    MemReturned("recall") =>
        LET sid == msg.session_id
            all == Tagged(recall_landmarks(cache_landmarks, sid, msg.query), "cache")
                   \o Tagged(search_landmarks(db_landmarks, sid, msg.query), "database")
                   \o (IF InSeq("proximity", msg.issued)
                       THEN Tagged(search_landmarks_near(db_landmarks, sid,
                                                         msg.lat, msg.lon), "proximity")
                       ELSE <<>>)
        IN /\ Len(Evidence) <= 10
           /\ \A i \in 1..Len(Evidence) :
                  Evidence[i].source \in {"cache", "database", "proximity"}
           /\ \A i, j \in 1..Len(Evidence) :
                  i < j => SourceRank(Evidence[i].source) <= SourceRank(Evidence[j].source)
           /\ Evidence = SubSeq(all, 1, Min(Len(all), 10))

\* more than 10 matches were found, and one landmark is in the evidence
\* under all three sources
C15_Witness ==
    /\ MemReturned("recall")
    /\ response.matches_found > 10
    /\ \E i, j, k \in 1..Len(Evidence) :
          /\ Evidence[i].source = "cache"
          /\ Evidence[j].source = "database"
          /\ Evidence[k].source = "proximity"
          /\ Evidence[i].row.id = Evidence[j].row.id
          /\ Evidence[j].row.id = Evidence[k].row.id

\* the landmarks whose record_landmark call was the session's last one to
\* return: its entry is the last of the session's landmark entries
LastRecorded(sid) ==
    LET entries == LandmarkEntries(cm_sessions, sid)
    IN IF entries = <<>> THEN {}
       ELSE {lm \in LandmarkInputs :
                entries[Len(entries)].text =
                    landmark_text(lm.label, lm.description, lm.direction,
                                  lm.distance_feet)}

\* C16: a recall for the label of the landmark that record_landmark last
\* returned for, in the same session, has a cache match for that label in
\* its evidence.
C16_RecordedThenRecalledFromCache ==
    MemReturned("recall") =>
        \A lm \in LastRecorded(msg.session_id) :
            msg.query = lm.label =>
                \E i \in 1..Len(Evidence) :
                    /\ Evidence[i].source = "cache"
                    /\ Evidence[i].row.label = lm.label

C16_Witness ==
    /\ MemReturned("recall")
    /\ \E lm \in LastRecorded(msg.session_id) : msg.query = lm.label
    /\ Evidence[1].source = "cache"
    /\ Evidence[1].row.id = Len(db_landmarks)

\* the ids extract_and_store_landmarks returned are those of the rows it
\* added, the last rows of the durable store
IdsOfLastRows ==
    LET n == Len(response.ids)
        first == Len(db_landmarks) - n
    IN /\ first >= 0
       /\ \A i \in 1..n : response.ids[i] = db_landmarks[first + i].id

OldestTrimmed(old, new) ==
    /\ new # <<>>
    /\ SubSeq(new, 1, Len(new) - 1) =
           (IF Len(old) < HAZARD_HISTORY_MAX THEN old ELSE Tail(old))

\* C18: after a hazard-detection call returns the session's history holds at
\* most 30 frames: the frames it held, without the oldest one when there
\* were 30, and the frame of the call as the newest.
C18_HistoryKeepsNewest30 ==
    [][\A sid \in DOMAIN hz_history' :
          /\ Len(hz_history'[sid]) <= HAZARD_HISTORY_MAX
          /\ Get(hz_frame_counter', sid, 0) # Get(hz_frame_counter, sid, 0) =>
                 /\ OldestTrimmed(Get(hz_history, sid, <<>>), hz_history'[sid])
                 /\ hz_history'[sid][Len(hz_history'[sid])].frame_index =
                        Get(hz_frame_counter, sid, 0)]_vars

\* a full history whose oldest frames have been trimmed
C18_Witness ==
    \E sid \in DOMAIN hz_history :
        /\ Len(hz_history[sid]) = HAZARD_HISTORY_MAX
        /\ hz_history[sid][1].frame_index > 0
        /\ hz_frame_counter[sid] > HAZARD_HISTORY_MAX

\* ------------------------------------------------------------------------
\*  Properties of the connections
\* ------------------------------------------------------------------------

\* the step ends the connection of this session
Ends(sid) == sid \in DOMAIN active_sessions /\ sid \notin DOMAIN active_sessions'

\* C19 as stated: when a connection ends, the final statistics have been
\* handed to the store and nothing of the session is left in the context
\* manager, the hazard history and frame counter, the clients' session maps
\* and the clients' pending stored intents.
C19_TeardownLeavesNothing ==
    [][\A sid \in SessionIds :
          Ends(sid) =>
              /\ "end_session" \in DOMAIN msg'
              /\ sid \notin DOMAIN cm_sessions'
              /\ sid \notin DOMAIN hz_history'
              /\ sid \notin DOMAIN hz_frame_counter'
              /\ \A c \in Clients : sid \notin client_sessions'[c]
              /\ \A c \in Clients : sid \notin DOMAIN pending_tool_calls'[c]]_vars

\* C20 as stated: a session whose set-up failed on some client has no
\* connection left open in any client; the sessions a client holds are those
\* of the connections being served.
C20_NoSessionLeftByPartialSetup ==
    \A sid \in SessionIds :
        sid \notin DOMAIN active_sessions =>
            /\ \A c \in Clients : sid \notin client_sessions[c]
            /\ sid \notin DOMAIN cm_sessions
            /\ sid \notin DOMAIN hz_history

\* ------------------------------------------------------------------------
\*  Properties of the context manager: removal, rendering, eviction
\* ------------------------------------------------------------------------

\* the step removed this session from the context manager
RemovedStep(sid) == sid \in DOMAIN cm_sessions /\ sid \notin DOMAIN cm_sessions'

\* C21: remove_session leaves nothing of the session (the next use starts
\* from an empty context with frame counter 0), leaves every other session
\* as it was, and changes nothing when the session is unknown or was
\* removed before.
C21_RemoveSessionDiscardsAndIsIdempotent ==
    [][\A sid \in SessionIds :
          LET R == remove_session(cm_sessions, sid)
          IN /\ sid \notin DOMAIN R
             /\ get_or_create(R, sid)[sid] = SessionContext(sid)
             /\ remove_session(R, sid) = R
             /\ sid \notin DOMAIN cm_sessions => R = cm_sessions
             /\ RemovedStep(sid) =>
                    /\ cm_sessions' = R
                    /\ \A other \in DOMAIN cm_sessions \ {sid} :
                           /\ other \in DOMAIN cm_sessions'
                           /\ cm_sessions'[other] = cm_sessions[other]]_vars

\* the session of the last insertion has been removed, and the other
\* session still holds its entries
C21_Witness ==
    /\ last_add.session_id \in SessionIds
    /\ last_add.session_id \notin DOMAIN cm_sessions
    /\ \E other \in DOMAIN cm_sessions : cm_sessions[other].entries # <<>>

\* the max_entries arguments of a rendering; 0 stands for "not given"
MaxEntriesArgs == {0, 1, 2}

\* the entry lines of a section
SectionLines(entries) == [i \in 1..Len(entries) |-> FrameLine(entries[i])]

\* the rendering with a second section of non-landmark entries only
TwoSections(ctx, max_entries) ==
    LET lms == LastN(ctx.landmark_entries, LANDMARK_WINDOW)
        others == SelectKind(ctx.entries, FALSE)
        recent == IF max_entries # 0 THEN LastN(others, max_entries) ELSE others
    IN (IF lms # <<>>
        THEN <<Header("=== KNOWN LANDMARKS ===")>> \o SectionLines(lms)
             \o <<Header("")>>
        ELSE <<>>)
       \o (IF recent # <<>>
           THEN <<Header("=== RECENT OBSERVATIONS ===")>> \o SectionLines(recent)
           ELSE <<>>)

\* C29 as stated: build_context_string renders the landmark section (the
\* last 50 landmark entries, oldest first), a blank line, then the most
\* recent max_entries non-landmark entries (all without max_entries), each
\* line with its frame index, and no landmark-kind entry in the second
\* section.
C29_SecondSectionWithoutLandmarks ==
    \A sid \in DOMAIN cm_sessions, n \in MaxEntriesArgs :
        build_context_string(cm_sessions, sid, n, TRUE) =
            TwoSections(cm_sessions[sid], n)

\* C30: the eviction loop of an add_observation pops at most as many
\* entries as the buffer held, from its head, and the running token total
\* of a session is never negative.
C30_EvictionBoundedTotalNonNegative ==
    [][/\ \A sid \in DOMAIN cm_sessions' : cm_sessions'[sid].total_tokens >= 0
       /\ \A sid \in SessionIds :
             (AddStep(sid) /\ last_add'.session_id = sid) =>
                 LET old == get_or_create(cm_sessions, sid)[sid]
                 IN /\ Len(last_add'.evicted) <= Len(old.entries)
                    /\ IsPrefix(last_add'.evicted, old.entries)
                    /\ Len(cm_sessions'[sid].entries) =
                           Len(old.entries) - Len(last_add'.evicted) + 1]_vars

\* an insertion has popped every entry the buffer held, two or more
C30_Witness ==
    /\ last_add.session_id \in DOMAIN cm_sessions
    /\ Len(last_add.evicted) >= 2
    /\ Len(cm_sessions[last_add.session_id].entries) = 1
    /\ cm_sessions[last_add.session_id].total_tokens > PRUNE_TARGET

\* ------------------------------------------------------------------------
\*  Properties of the turns: sessions, failures of the stores, stored
\*  intents, routing, response shapes
\* ------------------------------------------------------------------------

\* the rows of the durable store a session's lookups can return
OwnRows(sid) == SelectSeq(db_landmarks, LAMBDA row : row.session_id = sid)

\* what a turn of this session reads that is kept under its session id
KeyedView(sid) ==
    [context |-> IF sid \in DOMAIN cm_sessions THEN cm_sessions[sid]
                 ELSE SessionContext(sid),
     session |-> active_sessions[sid],
     hazard_history |-> Get(hz_history, sid, <<>>),
     hazard_frame |-> Get(hz_frame_counter, sid, 0),
     connected |-> {c \in Clients : sid \in client_sessions[c]},
     stored_intents |-> [c \in Clients |-> Get(pending_tool_calls[c], sid, <<>>)],
     rows |-> OwnRows(sid),
     cached |-> Get(cache_landmarks, sid, <<>>)]

\* what a turn of any session reads: the keyed state, the frame number the
\* scene prompt and the scene result carry, and the journey log the
\* navigation prompt carries
SessionView(sid) ==
    [keyed |-> KeyedView(sid), frame_index |-> scene_frame_index,
     journey |-> journey_log]

\* the step belongs to a turn of this session
TurnStepOf(sid) ==
    \/ pc # "idle" /\ msg.session_id = sid
    \/ pc = "idle" /\ pc' # "idle" /\ msg'.session_id = sid

\* C22 as stated: no step of a turn of session A changes anything a turn of
\* another connected session B reads, the scene agent's frame index and the
\* navigation agent's journey log included.
C22_TurnsLeaveOtherSessionsAlone ==
    [][\A A \in DOMAIN active_sessions, B \in DOMAIN active_sessions :
          (A # B /\ TurnStepOf(A)) => SessionView(B)' = SessionView(B)]_vars

\* the turn asks spatial memory: a memory_query, or a voice_command whose
\* text holds a recall pattern
RecallTurn ==
    /\ pc = "respond"
    /\ \/ msg.type = "memory_query"
       \/ msg.type = "voice_command" /\ Substring("where", Lower(Get(msg, "text", "")))

\* C23 as stated: a turn in which the fast cache fails is still answered as
\* with a working cache; a recall turn whose cache read failed returns a
\* recall answer, never the safe_fallback response.
C23_CacheFailureStillRecalls ==
    (RecallTurn /\ raised = "RuntimeError") =>
        /\ response # safe_fallback
        /\ Get(response, "type", "") = "memory_recall"

\* the landmarks the ingestion of the turn's frame tries to store
TurnCandidates ==
    landmark_candidates(Own(branch.scene), active_sessions[msg.session_id].frame_count,
                        sensor_lat(active_sessions, msg.session_id),
                        sensor_lon(active_sessions, msg.session_id))

\* C24: in a video_frame turn no failure of the scene snapshot, a hazard
\* event, the frame push or the landmark ingestion fails the turn or changes
\* its answer: after the gather the turn always goes on to the second audio
\* call with the three cleaned results, and the merged response carries the
\* direction, distance, hazards and confidence computed from the scene and
\* hazard results alone.
C24_WriteFailuresLeaveResponse ==
    [][/\ (pc = "gather" /\ pc' # "gather") =>
              /\ pc' = "reaudio"
              /\ raised' = "none"
              /\ cleaned' = cleaned_results(branch)
       /\ (pc = "merge" /\ pc' = "respond" /\ raised' = "none") =>
              /\ response'.direction = merged_direction(Own(branch.scene))
              /\ response'.distance_feet = merged_distance(Own(branch.scene))
              /\ response'.hazards = all_hazards(Own(branch.scene), Own(branch.hazard))
              /\ response'.confidence = merged_confidence(Own(branch.scene))]_vars

\* a merged response of a frame whose landmarks were to be stored and of
\* which no row was written
C24_Witness ==
    /\ MergedReturned
    /\ TurnCandidates # <<>>
    /\ db_landmarks = <<>>
    /\ response.direction = merged_direction(Own(branch.scene))
    /\ response.hazards # <<>>

\* the stored intents of a session still waiting in a capability's client
PendingIntents(c, sid) == Get(pending_tool_calls[c], sid, <<>>)

\* C25 as stated: every stored intent emitted during a turn is polled and
\* applied by the coordinator within the turn; between turns no client holds
\* a stored intent.
C25_NoIntentLeftAfterTurn ==
    pc = "idle" => \A c \in Clients, sid \in SessionIds : PendingIntents(c, sid) = <<>>

\* the one handler a turn is to be routed to, by its type and text
RoutedTo(m) ==
    IF m.type = "video_frame" THEN "fan_out"
    ELSE IF m.type = "audio_chunk" THEN "hazard"
    ELSE IF m.type = "memory_query" THEN "memory"
    ELSE IF m.type = "voice_command" /\ Substring("where", Lower(Get(m, "text", "")))
    THEN "memory"
    ELSE "nav"

\* the first step of a turn
TurnStarts == pc = "idle" /\ pc' # "idle"

ImminentReported ==
    SelectSeq(Get(Own(branch.hazard), "imminent_hazards", <<>>), IsDict)

\* C27 as stated: the answer to a video_frame turn has the keys navigation,
\* hazards, audio and confidence; navigation.direction is the direction of
\* the scene result's clear path and hazards has one entry per imminent
\* hazard reported.
C27_VideoResponseHasNavigation ==
    MergedReturned =>
        /\ {"navigation", "hazards", "audio", "confidence"} \subseteq DOMAIN response
        /\ response.navigation.direction =
               Get(Get(Own(branch.scene), "clear_path", EmptyDict), "direction", "")
        /\ Len(response.hazards) = Len(ImminentReported)

\* C28 as stated: a voice_command whose text contains "where" is answered
\* with the navigation capability's answer, which has a next_direction.
C28_WhereCommandGetsNextDirection ==
    (pc = "respond" /\ raised = "none" /\ msg.type = "voice_command"
        /\ Substring("where", Lower(Get(msg, "text", "")))) =>
        "next_direction" \in DOMAIN response

\* ------------------------------------------------------------------------
\*  Properties of the context manager: counting failure, eviction order,
\*  running total
\* ------------------------------------------------------------------------

\* C31: an add_observation whose token count failed still completes: the
\* entry's token count is the length-based estimate (a quarter of the
\* length, at least 1), the entry is the last of the buffer, and the total
\* is the total before, less the evicted entries' tokens, plus the estimate.
C31_FailedCountUsesEstimate ==
    [][\A sid \in SessionIds :
          (AddStep(sid) /\ last_add'.session_id = sid /\ ~last_add'.counted) =>
              LET e == last_add'.entry
                  quarter == TextLen(e.text) \div 4
                  old == get_or_create(cm_sessions, sid)[sid]
              IN /\ e.token_count >= 1
                 /\ e.token_count = (IF quarter >= 1 THEN quarter ELSE 1)
                 /\ AddedEntry(sid) = e
                 /\ cm_sessions'[sid].total_tokens =
                        old.total_tokens - SumTokens(last_add'.evicted) + e.token_count]_vars

\* a text shorter than four characters, counted as one token by the estimate
C31_Witness ==
    /\ last_add.session_id \in DOMAIN cm_sessions
    /\ ~last_add.counted
    /\ last_add.entry.text = "ok"
    /\ last_add.entry.token_count = 1
    /\ cm_sessions[last_add.session_id].total_tokens >= 1

\* ------------------------------------------------------------------------
\*  Properties of recall: the issuing of the lookups
\* ------------------------------------------------------------------------

\* C32 as stated: recall issues its lookups in parallel, so that every
\* lookup the call is to make (cache, durable store, and proximity with a
\* geo point) is issued whatever becomes of the others, a failing one
\* included.
C32_LookupsIssuedWhateverFails ==
    MemCalled("recall") => msg.issued = recall_queries(msg.lat, msg.lon)

\* ------------------------------------------------------------------------
\*  Properties of the hazard agent: the prompt, the frames stored
\* ------------------------------------------------------------------------

\* the step is a detect_hazards call of the session
HzCallStep(sid) ==
    /\ msg'.type = "detect_hazards"
    /\ msg'.session_id = sid
    /\ msg' # msg

\* C33 as stated: the capability is given the last 30 stored hazard frames
\* of the session (all of them when fewer are stored), as they were before
\* the call, whose own frame is appended only after it returned.
C33_PromptCarriesLast30Frames ==
    [][\A sid \in SessionIds :
          HzCallStep(sid) =>
              msg'.temporal_ctx = LastN(Get(hz_history, sid, <<>>), HAZARD_HISTORY_MAX)]_vars

\* ------------------------------------------------------------------------
\*  Properties of the video turn: the second audio call, the last known
\*  direction, the landmark ingestion
\* ------------------------------------------------------------------------

\* C34: the second audio call of a video_frame turn comes after the three
\* first calls are over and after the ingestion, the stored intents of the
\* scene and hazard clients and the persistence writes; it never fails the
\* turn: the audio result merged is the first call's when the second raises
\* and the second's when it returns, and it is the response's audio field.
C34_SecondAudioAfterGatherAndSwallowed ==
    [][/\ pc' = "reaudio" =>
              /\ gather_done(branch')
              /\ cleaned' = cleaned_results(branch')
              /\ Get(pending_tool_calls'["scene"], msg'.session_id, <<>>) = <<>>
              /\ Get(pending_tool_calls'["hazard"], msg'.session_id, <<>>) = <<>>
       /\ pc = "reaudio" =>
              /\ pc' = "merge"
              /\ raised' = "none"
              /\ cleaned'.audio_result \in {Own(branch.audio)} \cup SecondAudioResults
              /\ cleaned'.scene_result = cleaned.scene_result
              /\ cleaned'.hazard_result = cleaned.hazard_result
       /\ (pc = "merge" /\ pc' = "respond" /\ raised' = "none") =>
              response'.audio = cleaned.audio_result]_vars

\* the second call raised and the answer carries the first call's result
C34_Witness ==
    /\ MergedReturned
    /\ branch.audio.status = "returned"
    /\ response.audio = Own(branch.audio)
    /\ response.audio # EmptyDict

\* ------------------------------------------------------------------------
\*  Properties of the context manager: the buffer as a window
\* ------------------------------------------------------------------------

\* C35: eviction is first in, first out. Every insertion of a session gets
\* the next frame index, so the entries ever inserted are numbered 0, 1, 2,
\* ... in insertion order; the buffer always holds the last of them, without
\* a gap and in that order.
C35_BufferIsSuffixOfInsertions ==
    \A sid \in DOMAIN cm_sessions :
        LET ctx == cm_sessions[sid]
        IN \A i \in 1..Len(ctx.entries) :
               ctx.entries[i].frame_index =
                   ctx.frame_counter - Len(ctx.entries) + (i - 1)

\* an insertion evicted the oldest entry and the two after it are held
C35_Witness ==
    /\ last_add.session_id \in DOMAIN cm_sessions
    /\ last_add.evicted # <<>>
    /\ Len(cm_sessions[last_add.session_id].entries) = 2
    /\ cm_sessions[last_add.session_id].entries[1].frame_index = 1

\* C36: the running total of a session is the sum of the token counts of
\* the entries its buffer holds, landmark-kind entries included, after any
\* run of insertions and evictions; get_stats reports that total and the
\* length of that buffer.
C36_TotalIsSumOfHeldEntries ==
    \A sid \in DOMAIN cm_sessions :
        LET ctx == cm_sessions[sid]
            stats == get_stats(cm_sessions, sid)
        IN /\ ctx.total_tokens = SumTokens(ctx.entries)
           /\ stats.total_tokens = SumTokens(ctx.entries)
           /\ stats.entry_count = Len(ctx.entries)

\* after an eviction the buffer holds a landmark-kind entry and another one
C36_Witness ==
    /\ last_add.session_id \in DOMAIN cm_sessions
    /\ last_add.evicted # <<>>
    /\ LET ctx == cm_sessions[last_add.session_id]
       IN /\ Len(ctx.entries) = 2
          /\ SelectKind(ctx.entries, TRUE) # <<>>
          /\ SelectKind(ctx.entries, FALSE) # <<>>
          /\ get_stats(cm_sessions, last_add.session_id).total_tokens > HalfTarget

\* the entries an insertion popped, counted from the buffers before and after
EvictedCount(old, new) == Len(old.entries) + 1 - Len(new.entries)

\* C37: an insertion evicts as few entries as it can. It evicts none when
\* the total and the new tokens are within the soft target; every entry it
\* evicts is popped while the total and the new tokens are still above the
\* target; it stops when they fit or the buffer is empty; and the new entry
\* is appended whether it fits or not.
C37_EvictsMinimumAndAppends ==
    [][\A sid \in SessionIds :
          (AddStep(sid) /\ last_add'.session_id = sid) =>
              LET old == get_or_create(cm_sessions, sid)[sid]
                  new == cm_sessions'[sid]
                  tokens == last_add'.entry.token_count
                  k == EvictedCount(old, new)
                  TotalAfter(j) == old.total_tokens - SumTokens(SubSeq(old.entries, 1, j))
              IN /\ k \in 0..Len(old.entries)
                 /\ new.entries = SubSeq(old.entries, k + 1, Len(old.entries))
                                     \o <<last_add'.entry>>
                 /\ old.total_tokens + tokens <= PRUNE_TARGET => k = 0
                 /\ \A j \in 0..(k - 1) : TotalAfter(j) + tokens > PRUNE_TARGET
                 /\ TotalAfter(k) + tokens <= PRUNE_TARGET \/ k = Len(old.entries)]_vars

\* an insertion popped one of the two entries held, and then fitted
C37_Witness ==
    /\ last_add.session_id \in DOMAIN cm_sessions
    /\ Len(last_add.evicted) = 1
    /\ last_add.entry.token_count < HalfTarget
    /\ LET ctx == cm_sessions[last_add.session_id]
       IN /\ Len(ctx.entries) = 2
          /\ ctx.entries[2] = last_add.entry
          /\ ctx.total_tokens <= PRUNE_TARGET

\* the direction and distance fallback_last_known answers with
LastKnown(sid) ==
    <<active_sessions[sid].last_clear_direction, active_sessions[sid].last_clear_distance>>

\* the step returns the merged response of a video_frame turn of the session
MergedStep(sid) ==
    /\ pc = "merge" /\ pc' = "respond" /\ raised' = "none"
    /\ msg.session_id = sid

\* C38 as stated: a video_frame turn that returns the merged response leaves
\* the response's direction and distance as the session's last known ones
\* (the empty string and 0 of a failed scene branch included), and the last
\* known values are those of the most recent merged response: nothing else
\* changes them.
C38_LastKnownIsLastMergedResponse ==
    [][\A sid \in DOMAIN active_sessions :
          /\ MergedStep(sid) =>
                 LastKnown(sid)' = <<response'.direction, response'.distance_feet>>
          /\ LastKnown(sid)' # LastKnown(sid) => MergedStep(sid)]_vars

\* what a step appended to a list
Appended(old, new) == SubSeq(new, Len(old) + 1, Len(new))

\* C39: the landmark ingestion of a video_frame turn records the candidates
\* one after the other and ends at the first write that fails. When the
\* durable write of the k-th candidate fails, the k-1 candidates before it
\* are rows of the durable store, rows of the cache and landmark entries of
\* the context buffer, and nothing is written for the k-th and the later
\* ones; the turn goes on to its second audio call and raises nothing.
C39_IngestionStopsAtFailedWrite ==
    [][(pc = "gather" /\ pc' # "gather") =>
          LET sid == msg.session_id
              cands == TurnCandidates
              rows == Appended(db_landmarks, db_landmarks')
              cached == Appended(CachedRows(sid), Get(cache_landmarks', sid, <<>>))
              entries == Appended(LandmarkEntries(cm_sessions, sid),
                                  LandmarkEntries(cm_sessions', sid))
          IN /\ IsPrefix(db_landmarks, db_landmarks')
             /\ Len(rows) <= Len(cands)
             /\ \A i \in 1..Len(rows) :
                    rows[i] = landmark_row(Len(db_landmarks) + i, sid, cands[i])
             /\ IsPrefix(cached, rows)
             /\ Len(rows) - Len(cached) \in {0, 1}
             /\ Len(entries) = Len(cached)
             /\ \A i \in 1..Len(entries) :
                    /\ entries[i].entry_type = "landmark"
                    /\ entries[i].text =
                           landmark_text(cands[i].label, cands[i].description,
                                         cands[i].direction, cands[i].distance_feet)
             /\ pc' = "reaudio"
             /\ raised' = "none"]_vars

\* the durable write of the second of two candidates failed: the first is
\* in the store, the cache and the context, and the turn returned its
\* merged response
C39_Witness ==
    /\ MergedReturned
    /\ Len(TurnCandidates) = 2
    /\ Len(db_landmarks) = 1
    /\ db_landmarks[1].label = TurnCandidates[1].label
    /\ Len(CachedRows(msg.session_id)) = 1
    /\ Len(LandmarkEntries(cm_sessions, msg.session_id)) = 1

\* C40: a detect_hazards call that raises leaves the session's history and
\* frame counter as they were; one that returns stores exactly one frame,
\* numbered with the counter before the call, and adds 1 to the counter, so
\* the frame indexes of a history are strictly increasing; clear_session
\* removes the history and the counter of the session, leaves the other
\* sessions' alone, and changes nothing when called again.
C40_OneFramePerReturnedCall ==
    [][/\ \A sid \in DOMAIN hz_history' :
             \A i, j \in 1..Len(hz_history'[sid]) :
                 i < j => hz_history'[sid][i].frame_index < hz_history'[sid][j].frame_index
       /\ DOMAIN hz_history' = DOMAIN hz_frame_counter'
       /\ \A sid \in SessionIds :
             LET old == Get(hz_history, sid, <<>>)
                 n == Get(hz_frame_counter, sid, 0)
                 H == clear_session(hz_history, sid)
                 C == clear_session(hz_frame_counter, sid)
             IN /\ HzCallStep(sid) =>
                       \/ /\ hz_history' = hz_history
                          /\ hz_frame_counter' = hz_frame_counter
                       \/ /\ hz_frame_counter'[sid] = n + 1
                          /\ OldestTrimmed(old, hz_history'[sid])
                          /\ hz_history'[sid][Len(hz_history'[sid])].frame_index = n
                          /\ \A other \in SessionIds \ {sid} :
                                 /\ Get(hz_history', other, <<>>) = Get(hz_history, other, <<>>)
                                 /\ Get(hz_frame_counter', other, 0) =
                                        Get(hz_frame_counter, other, 0)
                /\ (sid \in DOMAIN hz_frame_counter /\ sid \notin DOMAIN hz_frame_counter') =>
                       /\ hz_history' = H
                       /\ hz_frame_counter' = C
                /\ sid \notin DOMAIN H /\ sid \notin DOMAIN C
                /\ clear_session(H, sid) = H /\ clear_session(C, sid) = C]_vars

\* the last call returned and left its session one frame, numbered 0, and
\* a counter of 1, while the other session holds frames of earlier calls
C40_Witness ==
    \E sid \in DOMAIN hz_history, other \in DOMAIN hz_history :
        /\ sid # other
        /\ Len(hz_history[sid]) = 1
        /\ hz_frame_counter[sid] = 1
        /\ msg.type = "detect_hazards" /\ msg.session_id = sid
        /\ Len(hz_history[other]) >= 2
        /\ hz_history[other][1].frame_index < hz_history[other][2].frame_index

====
